---- MODULE Spec2Model ----
(***************************************************************************)
(* State-machine model of the vk_order_independent_transparency sample:    *)
(* the Sample object's requested and applied State, its swapchain, its     *)
(* GPU resources by category, and the handlers that rebuild them           *)
(* (resizeCommands, updateRendererFromState, display, onWindowResize,      *)
(* onKeyboard, the "reload shaders" menu entry, close).                    *)
(*                                                                         *)
(* Each handler is a function from a World record (one field per member    *)
(* of the Sample object, plus history fields) to the World it leaves; an   *)
(* action applies one whole handler.  Lengths are in abstract pixels and   *)
(* the floating-point fields scaleMin and scaleWidth are in tenths.        *)
(***************************************************************************)
EXTENDS Integers, Sequences, FiniteSets, TLC

(* ---- bounds of the exploration ---- *)

\* User events (widget edits, resizes, vsync toggles, shader reloads) per run.
MaxEvents == 2
\* Images in the swapchain, hence frame slots of every ring.
NumSwapImages == 2
\* Surface size the window is created with, in abstract pixels.
SurfaceWidth == 3
SurfaceHeight == 2
\* Calls of CachingShaderCompiler::compile per run.
MaxCompiles == 3
\* Latest modification time of a shader file.
MaxModifiedTime == 1

(* ---- src/common.h ---- *)

OIT_SIMPLE == 0
OIT_LINKEDLIST == 1
OIT_LOOP == 2
OIT_LOOP64 == 3
OIT_SPINLOCK == 4
OIT_INTERLOCK == 5
OIT_WEIGHTED == 6
NUM_ALGORITHMS == 7

AA_NONE == 0
AA_MSAA_4X == 1
AA_SSAA_4X == 2
AA_SUPER_4X == 3
AA_MSAA_8X == 4
AA_SSAA_8X == 5
NUM_AATYPES == 6

(* ---- struct State (src/oit.h) ---- *)

\* The fields the GUI edits, and the three antialiasing fields derived from
\* aaType.  interlockIsOrdered is the field the GUI's checkbox writes.
StateFields ==
  {"algorithm", "oitLayers", "linkedListAllocatedPerElement", "percentTransparent",
   "tailBlend", "interlockIsOrdered", "numObjects", "subdiv", "scaleMin",
   "scaleWidth", "aaType", "drawUI", "msaa", "sampleShading", "supersample"}

\* A default-constructed State.
DefaultState ==
  [algorithm |-> OIT_SPINLOCK,
   oitLayers |-> 8,
   linkedListAllocatedPerElement |-> 10,
   percentTransparent |-> 100,
   tailBlend |-> TRUE,
   interlockIsOrdered |-> TRUE,
   numObjects |-> 1024,
   subdiv |-> 16,
   scaleMin |-> 1,
   scaleWidth |-> 9,
   aaType |-> AA_NONE,
   drawUI |-> TRUE,
   msaa |-> 1,
   sampleShading |-> FALSE,
   supersample |-> 1]

\* State::coverageShading
coverageShading(st) == st.msaa > 1 /\ ~st.sampleShading

\* recomputeAntialiasingSettings without the reset of sampleShading and
\* supersample before the switch.
recomputeAntialiasingSettings_NoReset(st) ==
  CASE st.aaType = AA_NONE     -> [st EXCEPT !.msaa = 1]
    [] st.aaType = AA_MSAA_4X  -> [st EXCEPT !.msaa = 4]
    [] st.aaType = AA_SSAA_4X  -> [st EXCEPT !.msaa = 4, !.sampleShading = TRUE]
    [] st.aaType = AA_SUPER_4X -> [st EXCEPT !.msaa = 1, !.supersample = 2]
    [] st.aaType = AA_MSAA_8X  -> [st EXCEPT !.msaa = 8]
    [] st.aaType = AA_SSAA_8X  -> [st EXCEPT !.msaa = 8, !.sampleShading = TRUE]
    [] OTHER                   -> st

\* State::recomputeAntialiasingSettings: msaa, sampleShading and supersample
\* are functions of aaType alone.
recomputeAntialiasingSettings(st) ==
  LET base == [st EXCEPT !.sampleShading = FALSE, !.supersample = 1]
  IN  CASE st.aaType = AA_NONE     -> [base EXCEPT !.msaa = 1]
        [] st.aaType = AA_MSAA_4X  -> [base EXCEPT !.msaa = 4]
        [] st.aaType = AA_SSAA_4X  -> [base EXCEPT !.msaa = 4, !.sampleShading = TRUE]
        [] st.aaType = AA_SUPER_4X -> [base EXCEPT !.msaa = 1, !.supersample = 2]
        [] st.aaType = AA_MSAA_8X  -> [base EXCEPT !.msaa = 8]
        [] st.aaType = AA_SSAA_8X  -> [base EXCEPT !.msaa = 8, !.sampleShading = TRUE]
        [] OTHER                   -> base

Max(a, b) == IF a >= b THEN a ELSE b
Min(a, b) == IF a <= b THEN a ELSE b

(* ---- the settings window (src/oitGui.cpp, Sample::onUIRender) ---- *)

\* Upper end of the layers combo: the choices are 1 << 0 .. 1 << MAX_LAYERS_LOG2.
MAX_LAYERS_LOG2 == 5

RECURSIVE Pow2(_)
Pow2(n) == IF n = 0 THEN 1 ELSE 2 * Pow2(n - 1)

\* The widgets in the order onUIRender draws them.
Widgets ==
  <<"algorithm", "tailBlend", "interlockIsOrdered", "oitLayers",
    "linkedListAllocatedPerElement", "aaType", "numObjects",
    "percentTransparent", "subdiv", "scaleMin", "scaleWidth">>

\* What the program asks the device: whether it reports the feature
\* shaderBufferInt64Atomics, and whether the context enabled the optional
\* extensions VK_KHR_shader_atomic_int64 and VK_EXT_fragment_shader_interlock.
Device(int64Atomics, atomicInt64, interlock) ==
  [shaderBufferInt64Atomics |-> int64Atomics,
   atomicInt64Extension |-> atomicInt64,
   fragmentShaderInterlockExtension |-> interlock]

\* The device with every optional feature and extension.
SupportedDevice == Device(TRUE, TRUE, TRUE)

\* The devices the sample can run on.  A device that lists
\* VK_KHR_shader_atomic_int64 reports shaderBufferInt64Atomics; a Vulkan 1.2
\* device may report the feature without listing the extension.
Devices ==
  {Device(f, a, i) : f \in BOOLEAN, a \in BOOLEAN, i \in BOOLEAN} \
    {Device(FALSE, TRUE, i) : i \in BOOLEAN}

\* The algorithm combo skips the entries the device does not support.
AlgorithmOffered(dev, alg) ==
  /\ (alg = OIT_LOOP64 => dev.shaderBufferInt64Atomics)
  /\ (alg = OIT_INTERLOCK => dev.fragmentShaderInterlockExtension)

\* The asserts of createOrReloadShaderModules for the algorithm hold.
ExtensionAsserted(dev, alg) ==
  /\ (alg = OIT_LOOP64 => dev.atomicInt64Extension)
  /\ (alg = OIT_INTERLOCK => dev.fragmentShaderInterlockExtension)

\* The entries the algorithm combo offers on a device that supports all.
AlgorithmChoices ==
  {alg \in 0 .. NUM_ALGORITHMS - 1 : AlgorithmOffered(SupportedDevice, alg)}

\* What the user can enter into each widget.  Combos and checkboxes offer
\* exactly their entries; the numeric inputs take any integer, of which the
\* model tries values below, inside and above the range the code clamps to.
WidgetChoices(widget) ==
  CASE widget = "algorithm" -> AlgorithmChoices
    [] widget = "tailBlend" -> BOOLEAN
    [] widget = "interlockIsOrdered" -> BOOLEAN
    [] widget = "oitLayers" -> {Pow2(0), Pow2(MAX_LAYERS_LOG2)}
    [] widget = "linkedListAllocatedPerElement" -> {0, 11}
    [] widget = "aaType" -> 0 .. NUM_AATYPES - 1
    [] widget = "numObjects" -> {0, 1152}
    [] widget = "percentTransparent" -> {-1, 30, 101}
    [] widget = "subdiv" -> {1, 33}
    [] widget = "scaleMin" -> {0}
    [] widget = "scaleWidth" -> {40}

\* Whether onUIRender draws the widget for the state it has at that point.
WidgetVisible(st, widget) ==
  CASE widget = "tailBlend" -> st.algorithm # OIT_WEIGHTED
    [] widget = "interlockIsOrdered" -> st.algorithm = OIT_INTERLOCK
    [] widget = "oitLayers" -> st.algorithm # OIT_WEIGHTED /\ st.algorithm # OIT_LINKEDLIST
    [] widget = "linkedListAllocatedPerElement" -> st.algorithm = OIT_LINKEDLIST
    [] OTHER -> TRUE

\* The clamp onUIRender applies after a visible widget, edited or not.
WidgetClamp(st, widget) ==
  CASE widget = "linkedListAllocatedPerElement" ->
         [st EXCEPT !.linkedListAllocatedPerElement = Max(1, @)]
    [] widget = "numObjects" -> [st EXCEPT !.numObjects = Max(1, @)]
    [] widget = "percentTransparent" -> [st EXCEPT !.percentTransparent = Max(0, Min(@, 100))]
    [] widget = "subdiv" -> [st EXCEPT !.subdiv = Max(2, Min(@, 32))]
    [] OTHER -> st

\* One widget of onUIRender: skipped when hidden; otherwise the user's entry,
\* if any, is stored and the widget's clamp applied.
ApplyWidget(st, widget, ui) ==
  IF ~WidgetVisible(st, widget) THEN st
  ELSE WidgetClamp(IF widget \in DOMAIN ui THEN [st EXCEPT ![widget] = ui[widget]] ELSE st,
                   widget)

RECURSIVE DoGUIFrom(_, _, _)
DoGUIFrom(st, k, ui) ==
  IF k > Len(Widgets) THEN st
  ELSE DoGUIFrom(ApplyWidget(st, Widgets[k], ui), k + 1, ui)

\* Sample::onUIRender, the part that edits m_state: the widgets in order.
DoGUI(st, ui) == DoGUIFrom(st, 1, ui)

(***************************************************************************)
(* The World: the members of the Sample object that the handlers read and  *)
(* write, and history fields that record what a handler did.               *)
(*                                                                         *)
(*   inFlight  frame slots whose last submitted command buffer may still   *)
(*             be executing (submitted, and neither that slot's fence nor  *)
(*             the device has been waited on since)                        *)
(*   idle      no queue submission was left unwaited since the last        *)
(*             vkDeviceWaitIdle                                            *)
(*   retired   whether frames were in flight when the handler that ran     *)
(*             last waited for the device                                  *)
(*   trace     the events of the handler that ran last, in program order   *)
(*   faults    things that must never happen, once they have happened      *)
(*   cmdBuffer the commands the handler that ran last recorded in the      *)
(*             frame's command buffer (empty if it recorded no frame):     *)
(*             those of Sample::render; backBufferCmds holds those that    *)
(*             display recorded after them                                 *)
(*   failing   the rebuild step whose first vkCreate* call returns an      *)
(*             error in the handler that starts now ("none": no call fails)*)
(*   terminated the process has ended on an error                          *)
(***************************************************************************)

Emit(w, e) == [w EXCEPT !.trace = Append(@, e)]

Fault(w, f) == [w EXCEPT !.faults = @ \cup {f}]

\* A failed creation that is not acted on: the function goes on.
Throw_Ignored(w) == Emit(w, "terminate")

\* throw std::runtime_error, which no function of the sample catches, and
\* NVVK_CHECK on an error result: the process ends where it is.
Throw(w) == Emit([w EXCEPT !.terminated = TRUE], "terminate")

\* vkDeviceWaitIdle: returns when every submitted command buffer has finished.
vkDeviceWaitIdle(w) ==
  Emit([w EXCEPT !.inFlight = {}, !.idle = TRUE, !.retired = (@ \/ w.inFlight # {})],
       "vkDeviceWaitIdle")

\* nvvk::ScopeCommandBuffer going out of scope: the commands recorded into
\* it are submitted and the queue is waited on before the scope is left.
ScopeCommandBufferSubmit(w) ==
  IF w.terminated THEN w ELSE Emit(w, "submitAndWait")

\* A vkDestroy* or allocator destroy call reaching live objects of a category.
DestroysLive(w, category) ==
  LET w1 == IF w.inFlight # {} THEN Fault(w, "destroyedInFlight") ELSE w
      w2 == IF ~w.idle THEN Fault(w1, "destroyedWithoutIdle") ELSE w1
  IN  Emit(w2, "destroy:" \o category)

\* A vkCreate* or allocator create call storing into handles of a category;
\* overwrote says that one of the handles still held a live object.
CreatesInto(w, category, overwrote) ==
  Emit(IF overwrote THEN Fault(w, "createdOverLive") ELSE w, "create:" \o category)

(* ---- descriptor bindings (src/common.h, src/oit.cpp) ---- *)

\* The bindings createDescriptorSets adds to the layout.
Bindings ==
  {"UBO_SCENE", "IMG_ABUFFER", "IMG_AUX", "IMG_AUXSPIN", "IMG_AUXDEPTH",
   "IMG_COUNTER", "IMG_WEIGHTED_COLOR", "IMG_WEIGHTED_REVEAL"}

\* The bindings that refer to frame images or to the A-buffer.
FrameBindings == Bindings \ {"UBO_SCENE"}

\* What a binding of the descriptor sets holds: nothing yet ("unwritten"),
\* a live object ("valid"), or an object destroyed since ("dangling").
Dangle(writes, bindings) ==
  [b \in Bindings |-> IF b \in bindings /\ writes[b] = "valid" THEN "dangling"
                      ELSE writes[b]]

(* ---- uniform buffers (src/main.cpp) ---- *)

\* Sample::destroyUniformBuffers: the allocator destroys each element and
\* leaves it null; the vector keeps its length.
destroyUniformBuffers(w) ==
  IF \E i \in DOMAIN w.m_uniformBuffers : w.m_uniformBuffers[i]
  THEN [DestroysLive(w, "uniformBuffers") EXCEPT
          !.m_uniformBuffers = [i \in DOMAIN w.m_uniformBuffers |-> FALSE],
          \* the descriptor sets still hold the destroyed buffers
          !.m_descriptorInfo.writes = Dangle(@, {"UBO_SCENE"})]
  ELSE w

\* Sample::createUniformBuffers: one uniform buffer per swapchain image.
createUniformBuffers(w) ==
  LET w1 == destroyUniformBuffers(w)
      over == \E i \in DOMAIN w1.m_uniformBuffers : w1.m_uniformBuffers[i]
  IN  [CreatesInto(w1, "uniformBuffers", over) EXCEPT
         !.m_uniformBuffers = [i \in 1 .. NumSwapImages |-> TRUE]]

(* ---- scene (src/main.cpp) ---- *)

NullScene ==
  [live |-> FALSE, numObjects |-> 0, subdiv |-> 0, scaleMin |-> 0, scaleWidth |-> 0]

\* Sample::destroyScene: the allocator destroys the index and vertex buffer.
destroyScene(w) ==
  IF w.scene.live THEN [DestroysLive(w, "scene") EXCEPT !.scene = NullScene] ELSE w

\* Sample::initScene: the mesh is generated from numObjects, subdiv, scaleMin
\* and scaleWidth with a fixed random seed, and uploaded synchronously.
initScene(w) ==
  LET w1 == destroyScene(w)
      w2 == CreatesInto(w1, "scene", w1.scene.live)
  IN  ScopeCommandBufferSubmit(
        [w2 EXCEPT !.scene = [live |-> TRUE,
                              numObjects |-> w.m_state.numObjects,
                              subdiv |-> w.m_state.subdiv,
                              scaleMin |-> w.m_state.scaleMin,
                              scaleWidth |-> w.m_state.scaleWidth]])

(* ---- frame images and the A-buffer (src/oit.cpp, src/utilities_vk.h) ---- *)

FrameImageNames ==
  {"m_colorImage", "m_depthImage", "m_downsampleImage", "m_guiCompositeImage",
   "m_oitAuxImage", "m_oitAuxSpinImage", "m_oitAuxDepthImage", "m_oitCounterImage",
   "m_oitWeightedColorImage", "m_oitWeightedRevealImage"}

\* An ImageAndView whose image is VK_NULL_HANDLE.  The World's images field
\* holds the live images only.
NullImage == [live |-> FALSE, width |-> 0, height |-> 0, layers |-> 0, samples |-> 0]

ImageOf(w, name) == IF name \in DOMAIN w.images THEN w.images[name] ELSE NullImage

\* A BufferAndView whose buffer is VK_NULL_HANDLE.
NullBuffer ==
  [live |-> FALSE, size |-> 0, usage |-> "NONE", format |-> "UNDEFINED", view |-> FALSE]

\* ImageAndView::init (called as create): asserts that the image is null.
ImageCreate(w, name, width, height, layers, samples) ==
  LET w1 == IF name \in DOMAIN w.images THEN Fault(w, "assertInitOnLive") ELSE w
      image == [live |-> TRUE, width |-> width, height |-> height,
                layers |-> layers, samples |-> samples]
  IN  [w1 EXCEPT !.images =
         [n \in DOMAIN w.images \cup {name} |-> IF n = name THEN image ELSE w.images[n]]]

\* BufferAndView::init creating no view for any usage.
BufferCreate_NoView(w, size, usage, format) ==
  [w EXCEPT !.m_oitABuffer =
     [live |-> TRUE, size |-> size, usage |-> usage, format |-> format,
      view |-> FALSE]]

\* BufferAndView::init (called as create): asserts that the buffer is null;
\* a view is created only for a texel-buffer usage.
BufferCreate(w, size, usage, format) ==
  LET w1 == IF w.m_oitABuffer.live THEN Fault(w, "assertInitOnLive") ELSE w
  IN  [w1 EXCEPT !.m_oitABuffer =
         [live |-> TRUE, size |-> size, usage |-> usage, format |-> format,
          view |-> (usage = "STORAGE_TEXEL_BUFFER")]]

\* destroyFrameImages with m_oitCounterImage left out of the list of images
\* it deinitializes.
destroyFrameImages_KeepsCounter(w) ==
  IF w.m_oitABuffer.live \/ DOMAIN w.images # {}
  THEN [DestroysLive(w, "frameImages") EXCEPT
          !.images = [n \in DOMAIN w.images \cap {"m_oitCounterImage"} |-> w.images[n]],
          !.layouts = [n \in DOMAIN w.images \cap {"m_oitCounterImage"} |-> w.layouts[n]],
          !.m_oitABuffer = NullBuffer,
          !.m_mainColorDepthFramebuffer.imagesStale = w.m_mainColorDepthFramebuffer.live,
          !.m_weightedFramebuffer.imagesStale = w.m_weightedFramebuffer.live,
          !.m_descriptorInfo.writes = Dangle(@, FrameBindings)]
  ELSE w

\* Sample::destroyFrameImages: ImageAndView::deinit and BufferAndView::deinit
\* destroy what is live and leave every handle null.  Framebuffers and
\* descriptor writes made from these objects now hold destroyed views.
destroyFrameImages(w) ==
  IF w.m_oitABuffer.live \/ DOMAIN w.images # {}
  THEN [DestroysLive(w, "frameImages") EXCEPT
          !.images = <<>>, !.layouts = <<>>,
          !.m_oitABuffer = NullBuffer,
          !.m_mainColorDepthFramebuffer.imagesStale = w.m_mainColorDepthFramebuffer.live,
          !.m_weightedFramebuffer.imagesStale = w.m_weightedFramebuffer.live,
          !.m_descriptorInfo.writes = Dangle(@, FrameBindings)]
  ELSE w

\* The switch over m_state.algorithm in createFrameImages: which auxiliary
\* images to allocate, the A-buffer's elements per sample, element stride in
\* bytes and format, and the value stored in the scene UBO.
ABufferPlan(st, bufferWidth, bufferHeight, oldUbo) ==
  LET wide == coverageShading(st)
      none == [allocAux |-> FALSE, allocAuxSpin |-> FALSE, allocAuxDepth |-> FALSE,
               allocCounter |-> FALSE, elements |-> 1, stride |-> 0,
               format |-> "UNDEFINED", ubo |-> oldUbo]
      layered == [none EXCEPT !.allocAux = TRUE, !.elements = st.oitLayers,
                              !.ubo = st.oitLayers]
  IN  CASE st.algorithm = OIT_SIMPLE ->
             [layered EXCEPT !.stride = IF wide THEN 16 ELSE 8,
                             !.format = IF wide THEN "R32G32B32A32_UINT" ELSE "R32G32_UINT"]
        [] st.algorithm \in {OIT_INTERLOCK, OIT_SPINLOCK} ->
             [layered EXCEPT !.allocAuxSpin = (st.algorithm = OIT_SPINLOCK),
                             !.allocAuxDepth = TRUE,
                             !.stride = IF wide THEN 16 ELSE 8,
                             !.format = IF wide THEN "R32G32B32A32_UINT" ELSE "R32G32_UINT"]
        [] st.algorithm = OIT_LINKEDLIST ->
             [none EXCEPT !.allocAux = TRUE, !.allocCounter = TRUE,
                          !.elements = st.linkedListAllocatedPerElement,
                          !.stride = 16, !.format = "R32G32B32A32_UINT",
                          !.ubo = st.linkedListAllocatedPerElement * bufferWidth * bufferHeight]
        [] st.algorithm = OIT_LOOP ->
             [layered EXCEPT !.elements = st.oitLayers * 2, !.stride = 4,
                             !.format = "R32_UINT"]
        [] st.algorithm = OIT_LOOP64 ->
             [layered EXCEPT !.stride = 8, !.format = "R32G32_UINT"]
        [] OTHER -> none

\* The initialLayout of the attachments of a render pass that are frame
\* images: color and depth for the main pass; the two weighted targets,
\* color and depth for the weighted pass.  The attachment of the GUI pass
\* is a swapchain image.
AttachmentInitialLayouts(renderPass) ==
  CASE renderPass = "m_renderPassColorDepthClear" ->
         [image \in {"m_colorImage", "m_depthImage"} |->
            IF image = "m_depthImage" THEN "DEPTH_STENCIL_ATTACHMENT_OPTIMAL"
            ELSE "COLOR_ATTACHMENT_OPTIMAL"]
    [] renderPass = "m_renderPassWeighted" ->
         [image \in {"m_oitWeightedColorImage", "m_oitWeightedRevealImage",
                     "m_colorImage", "m_depthImage"} |->
            IF image = "m_depthImage" THEN "DEPTH_STENCIL_ATTACHMENT_OPTIMAL"
            ELSE "COLOR_ATTACHMENT_OPTIMAL"]
    [] OTHER -> <<>>

\* createFrameImages with the initial transitions left out.
InitialLayout_Undefined(name) == "UNDEFINED"

\* The layout createFrameImages transitions a new image to: the color and
\* the weighted images to the color attachment layout, the depth image to
\* the depth attachment layout, the auxiliary and counter images to GENERAL;
\* the downsample and GUI composite images stay as created, UNDEFINED.
InitialLayout(name) ==
  CASE name \in {"m_colorImage", "m_oitWeightedColorImage", "m_oitWeightedRevealImage"} ->
         "COLOR_ATTACHMENT_OPTIMAL"
    [] name = "m_depthImage" -> "DEPTH_STENCIL_ATTACHMENT_OPTIMAL"
    [] name \in {"m_oitAuxImage", "m_oitAuxSpinImage", "m_oitAuxDepthImage",
                 "m_oitCounterImage"} -> "GENERAL"
    [] OTHER -> "UNDEFINED"

\* The images createFrameImages has created, each transitioned to its layout.
InitialTransitions(w) ==
  [w EXCEPT !.layouts = [n \in DOMAIN w.images |-> InitialLayout(n)]]

\* ImageAndView::create under the condition the caller tests.
ImageCreateIf(wanted, w, name, width, height, layers, samples) ==
  IF wanted THEN ImageCreate(w, name, width, height, layers, samples) ELSE w

\* BufferAndView::create under the condition the caller tests.
BufferCreateIf(wanted, w, size, usage, format) ==
  IF wanted THEN BufferCreate(w, size, usage, format) ELSE w

\* Sample::createFrameImages after its call of destroyFrameImages: the color,
\* depth, downsample and GUI composite images, the value of the scene UBO,
\* the A-buffer if its size is not zero, the auxiliary images of the plan,
\* and the two weighted images for OIT_WEIGHTED.
AllocateFrameImages(w, st, swapchainWidth, swapchainHeight, plan) ==
  LET bufferWidth == swapchainWidth * st.supersample
      bufferHeight == swapchainHeight * st.supersample
      elements == IF st.sampleShading THEN plan.elements * st.msaa ELSE plan.elements
      ubo == IF st.sampleShading THEN plan.ubo * st.msaa ELSE plan.ubo
      aBufferSize == bufferWidth * bufferHeight * elements * plan.stride
      aBufferUsage == IF st.algorithm = OIT_LOOP64 THEN "STORAGE_BUFFER"
                      ELSE "STORAGE_TEXEL_BUFFER"
      auxLayers == IF st.sampleShading THEN st.msaa ELSE 1
      weighted == st.algorithm = OIT_WEIGHTED
  IN  InitialTransitions(
      ImageCreateIf(weighted,
       ImageCreateIf(weighted,
        ImageCreateIf(plan.allocCounter,
         ImageCreateIf(plan.allocAuxDepth,
          ImageCreateIf(plan.allocAuxSpin,
           ImageCreateIf(plan.allocAux,
            BufferCreateIf(aBufferSize # 0,
             [ImageCreate(
               ImageCreate(
                ImageCreate(
                 ImageCreate(
                  CreatesInto(w, "frameImages", w.m_oitABuffer.live \/ DOMAIN w.images # {}),
                  "m_colorImage", bufferWidth, bufferHeight, 1, st.msaa),
                 "m_depthImage", bufferWidth, bufferHeight, 1, st.msaa),
                "m_downsampleImage", swapchainWidth, swapchainHeight, 1, 1),
               "m_guiCompositeImage", swapchainWidth, swapchainHeight, 1, 1)
              EXCEPT !.m_sceneUbo.linkedListAllocatedPerElement = ubo],
             aBufferSize, aBufferUsage, plan.format),
            "m_oitAuxImage", bufferWidth, bufferHeight, auxLayers, 1),
           "m_oitAuxSpinImage", bufferWidth, bufferHeight, auxLayers, 1),
          "m_oitAuxDepthImage", bufferWidth, bufferHeight, auxLayers, 1),
         "m_oitCounterImage", 1, 1, 1, 1),
        "m_oitWeightedColorImage", bufferWidth, bufferHeight, 1, st.msaa),
       "m_oitWeightedRevealImage", bufferWidth, bufferHeight, 1, st.msaa))

\* Sample::createFrameImages
createFrameImages(w) ==
  AllocateFrameImages(destroyFrameImages(w), w.m_state, w.swapSize[1], w.swapSize[2],
                      ABufferPlan(w.m_state,
                                  w.swapSize[1] * w.m_state.supersample,
                                  w.swapSize[2] * w.m_state.supersample,
                                  w.m_sceneUbo.linkedListAllocatedPerElement))

(* ---- descriptor sets (src/oit.cpp) ---- *)

PipelineNames ==
  {"m_pipelineOpaque", "m_pipelineSimpleColor", "m_pipelineSimpleComposite",
   "m_pipelineLinkedListColor", "m_pipelineLinkedListComposite",
   "m_pipelineLoopDepth", "m_pipelineLoopColor", "m_pipelineLoopComposite",
   "m_pipelineLoop64Color", "m_pipelineLoop64Composite",
   "m_pipelineInterlockColor", "m_pipelineInterlockComposite",
   "m_pipelineSpinlockColor", "m_pipelineSpinlockComposite",
   "m_pipelineWeightedColor", "m_pipelineWeightedComposite"}

\* m_descriptorInfo before init: no layout, pool, sets or pipeline layout.
NullDescriptors ==
  [live |-> FALSE, abufferType |-> "NONE", sets |-> 0,
   writes |-> [b \in Bindings |-> "unwritten"], abufferWrite |-> "NONE"]

\* Sample::destroyDescriptorSets: deinit destroys the set layout, the pool
\* with its sets and the pipeline layout.  Pipelines built with the pipeline
\* layout now hold a destroyed layout.
destroyDescriptorSets(w) ==
  IF w.m_descriptorInfo.live
  THEN [DestroysLive(w, "descriptorSets") EXCEPT
          !.m_descriptorInfo = NullDescriptors,
          !.pipelines = [p \in DOMAIN w.pipelines |->
                           [w.pipelines[p] EXCEPT !.layoutStale = TRUE]]]
  ELSE w

\* Sample::createDescriptorSets: the IMG_ABUFFER binding is a storage buffer
\* for OIT_LOOP64 and a storage texel buffer otherwise; one set per
\* swapchain image.
createDescriptorSets(w) ==
  LET w1 == destroyDescriptorSets(w)
  IN  [CreatesInto(w1, "descriptorSets", w1.m_descriptorInfo.live) EXCEPT
         !.m_descriptorInfo =
            [live |-> TRUE,
             abufferType |-> IF w.m_state.algorithm = OIT_LOOP64 THEN "STORAGE_BUFFER"
                             ELSE "STORAGE_TEXEL_BUFFER",
             sets |-> NumSwapImages,
             writes |-> [b \in Bindings |-> "unwritten"],
             abufferWrite |-> "NONE"]]

\* The frame image whose view an image binding is written from.
BindingImage(b) ==
  CASE b = "IMG_AUX" -> "m_oitAuxImage"
    [] b = "IMG_AUXSPIN" -> "m_oitAuxSpinImage"
    [] b = "IMG_AUXDEPTH" -> "m_oitAuxDepthImage"
    [] b = "IMG_COUNTER" -> "m_oitCounterImage"
    [] b = "IMG_WEIGHTED_COLOR" -> "m_oitWeightedColorImage"
    [] b = "IMG_WEIGHTED_REVEAL" -> "m_oitWeightedRevealImage"

\* Whether updateAllDescriptorSets writes a binding: the UBO always, the
\* A-buffer as a buffer for OIT_LOOP64 and else through its view if it has
\* one, an image if its view is not null.
BindingWritten(w, b) ==
  CASE b = "UBO_SCENE" -> TRUE
    [] b = "IMG_ABUFFER" -> w.m_state.algorithm = OIT_LOOP64 \/ w.m_oitABuffer.view
    [] OTHER -> BindingImage(b) \in DOMAIN w.images

\* What the written binding then holds.
BindingTarget(w, b) ==
  CASE b = "UBO_SCENE" ->
         IF \A i \in DOMAIN w.m_uniformBuffers : w.m_uniformBuffers[i]
         THEN "valid" ELSE "dangling"
    [] b = "IMG_ABUFFER" -> IF w.m_oitABuffer.live THEN "valid" ELSE "dangling"
    [] OTHER -> "valid"

\* What the write of IMG_ABUFFER passes: the VkDescriptorBufferInfo of the
\* buffer for OIT_LOOP64, the VkBufferView of the texel buffer otherwise.
ABufferWriteKind(w) ==
  IF w.m_state.algorithm = OIT_LOOP64 THEN "pBufferInfo" ELSE "pTexelBufferView"

\* Sample::updateAllDescriptorSets: the same writes for every set of the ring.
updateAllDescriptorSets(w) ==
  Emit([w EXCEPT !.m_descriptorInfo.writes =
          [b \in Bindings |-> IF BindingWritten(w, b) THEN BindingTarget(w, b) ELSE @[b]],
                 !.m_descriptorInfo.abufferWrite =
          IF BindingWritten(w, "IMG_ABUFFER") THEN ABufferWriteKind(w) ELSE @],
       "write:descriptorSets")

(* ---- render passes (src/oit.cpp) ---- *)

NullRenderPass == [live |-> FALSE, msaa |-> 0]

\* Sample::destroyNonGUIRenderPasses (called as destroyRenderPasses): each
\* handle is destroyed if not null and nulled.  Framebuffers and pipelines
\* built for these render passes now hold a destroyed render pass.
destroyRenderPasses(w) ==
  IF w.m_renderPassColorDepthClear.live \/ w.m_renderPassWeighted.live
  THEN [DestroysLive(w, "renderPasses") EXCEPT
          !.m_renderPassColorDepthClear = NullRenderPass,
          !.m_renderPassWeighted = NullRenderPass,
          !.m_mainColorDepthFramebuffer.renderPassStale = w.m_mainColorDepthFramebuffer.live,
          !.m_weightedFramebuffer.renderPassStale = w.m_weightedFramebuffer.live,
          !.pipelines = [p \in DOMAIN w.pipelines |->
                           [w.pipelines[p] EXCEPT !.renderPassStale = TRUE]]]
  ELSE w

\* Sample::createNonGUIRenderPasses (called as createRenderPasses): both
\* render passes have m_state.msaa samples per attachment.
createRenderPasses(w) ==
  LET w1 == destroyRenderPasses(w)
      over == w1.m_renderPassColorDepthClear.live \/ w1.m_renderPassWeighted.live
  IN  [CreatesInto(w1, "renderPasses", over) EXCEPT
         !.m_renderPassColorDepthClear = [live |-> TRUE, msaa |-> w.m_state.msaa],
         !.m_renderPassWeighted = [live |-> TRUE, msaa |-> w.m_state.msaa]]

(* ---- framebuffers (src/main.cpp) ---- *)

NullFramebuffer ==
  [live |-> FALSE, width |-> 0, height |-> 0, imagesStale |-> FALSE,
   renderPassStale |-> FALSE]

\* Sample::destroyFramebuffers: the main and the weighted framebuffer are
\* destroyed if not null and nulled; the GUI framebuffers are destroyed
\* without a null check and their handles are left in the vector.
destroyFramebuffers(w) ==
  LET any == \/ w.m_mainColorDepthFramebuffer.live
             \/ w.m_weightedFramebuffer.live
             \/ w.m_guiSwapChainFramebuffers # "empty"
      w1 == IF w.m_guiSwapChainFramebuffers = "dangling"
            THEN Fault(w, "destroyedTwice") ELSE w
  IN  IF any
      THEN [DestroysLive(w1, "framebuffers") EXCEPT
              !.m_mainColorDepthFramebuffer = NullFramebuffer,
              !.m_weightedFramebuffer = NullFramebuffer,
              !.m_guiSwapChainFramebuffers = "dangling"]
      ELSE w

\* A framebuffer created from the current frame images and render pass.
NewFramebuffer(w, image, renderPass) ==
  [live |-> TRUE, width |-> ImageOf(w, image).width, height |-> ImageOf(w, image).height,
   imagesStale |-> ~ImageOf(w, image).live, renderPassStale |-> ~renderPass.live]

\* Sample::createFramebuffers: the main framebuffer always, the weighted one
\* for OIT_WEIGHTED, one GUI framebuffer per swapchain image.
createFramebuffers(w) ==
  LET w1 == destroyFramebuffers(w)
      over == \/ w1.m_mainColorDepthFramebuffer.live
              \/ w1.m_weightedFramebuffer.live
              \/ w1.m_guiSwapChainFramebuffers = "live"
      w2 == [CreatesInto(w1, "framebuffers", over) EXCEPT
               !.m_mainColorDepthFramebuffer =
                  NewFramebuffer(w1, "m_colorImage", w1.m_renderPassColorDepthClear),
               !.m_guiSwapChainFramebuffers = "live"]
  IN  IF w.m_state.algorithm = OIT_WEIGHTED
      THEN [w2 EXCEPT !.m_weightedFramebuffer =
              NewFramebuffer(w1, "m_oitWeightedColorImage", w1.m_renderPassWeighted)]
      ELSE w2

(* ---- shader modules (src/oit.cpp, src/main.cpp) ---- *)

ShaderNames ==
  {"m_shaderSceneVert", "m_shaderFullScreenTriangleVert", "m_shaderOpaqueFrag",
   "m_shaderSimpleColorFrag", "m_shaderSimpleCompositeFrag",
   "m_shaderLinkedListColorFrag", "m_shaderLinkedListCompositeFrag",
   "m_shaderLoopDepthFrag", "m_shaderLoopColorFrag", "m_shaderLoopCompositeFrag",
   "m_shaderLoop64ColorFrag", "m_shaderLoop64CompositeFrag",
   "m_shaderInterlockColorFrag", "m_shaderInterlockCompositeFrag",
   "m_shaderSpinlockColorFrag", "m_shaderSpinlockCompositeFrag",
   "m_shaderWeightedColorFrag", "m_shaderWeightedCompositeFrag"}

\* The defines of m_shaderModuleManager.m_prepend before the first update.
NullPrepend ==
  [OIT_LAYERS |-> 0, OIT_TAILBLEND |-> 0, OIT_MSAA |-> 0, OIT_SAMPLE_SHADING |-> 0]

\* A shader module ID that is not valid.  The World's shaderModules field
\* holds the modules of the valid IDs only.
NullShader == [live |-> FALSE, prepend |-> NullPrepend, pass |-> "NONE"]

ShaderOf(w, name) ==
  IF name \in DOMAIN w.shaderModules THEN w.shaderModules[name] ELSE NullShader

\* Sample::updateShaderDefinitions: the defines every module is compiled with.
updateShaderDefinitions(w) ==
  [w EXCEPT !.m_prepend =
     [OIT_LAYERS |-> w.m_state.oitLayers,
      OIT_TAILBLEND |-> IF w.m_state.tailBlend THEN 1 ELSE 0,
      OIT_MSAA |-> w.m_state.msaa,
      OIT_SAMPLE_SHADING |-> IF w.m_state.sampleShading THEN 1 ELSE 0]]

\* The fragment shader modules of one algorithm, with the PASS define each
\* is created with.
AlgorithmShaders(algorithm) ==
  CASE algorithm = OIT_SIMPLE ->
         {<<"m_shaderSimpleColorFrag", "PASS_COLOR">>,
          <<"m_shaderSimpleCompositeFrag", "PASS_COMPOSITE">>}
    [] algorithm = OIT_LINKEDLIST ->
         {<<"m_shaderLinkedListColorFrag", "PASS_COLOR">>,
          <<"m_shaderLinkedListCompositeFrag", "PASS_COMPOSITE">>}
    [] algorithm = OIT_LOOP ->
         {<<"m_shaderLoopDepthFrag", "PASS_DEPTH">>,
          <<"m_shaderLoopColorFrag", "PASS_COLOR">>,
          <<"m_shaderLoopCompositeFrag", "PASS_COMPOSITE">>}
    [] algorithm = OIT_LOOP64 ->
         {<<"m_shaderLoop64ColorFrag", "PASS_COLOR">>,
          <<"m_shaderLoop64CompositeFrag", "PASS_COMPOSITE">>}
    [] algorithm = OIT_INTERLOCK ->
         {<<"m_shaderInterlockColorFrag", "PASS_COLOR">>,
          <<"m_shaderInterlockCompositeFrag", "PASS_COMPOSITE">>}
    [] algorithm = OIT_SPINLOCK ->
         {<<"m_shaderSpinlockColorFrag", "PASS_COLOR">>,
          <<"m_shaderSpinlockCompositeFrag", "PASS_COMPOSITE">>}
    [] algorithm = OIT_WEIGHTED ->
         {<<"m_shaderWeightedColorFrag", "PASS_COLOR">>,
          <<"m_shaderWeightedCompositeFrag", "PASS_COMPOSITE">>}
    [] OTHER -> {}

\* The modules createOrReloadShaderModules loads: the two vertex shaders and
\* the opaque fragment shader always, and those of the current algorithm.
LoadedShaders(algorithm) ==
  {<<"m_shaderSceneVert", "NONE">>, <<"m_shaderFullScreenTriangleVert", "NONE">>,
   <<"m_shaderOpaqueFrag", "NONE">>} \cup AlgorithmShaders(algorithm)

\* Sample::createOrReloadShaderModule: a valid ID is reloaded, which
\* recompiles the module from source with the manager's current defines and
\* the PASS define it was created with, and replaces the old module; an
\* invalid ID gets a new module.
createOrReloadShaderModule(module, prepend, pass) ==
  IF module.live
  THEN [module EXCEPT !.prepend = prepend]
  ELSE [live |-> TRUE, prepend |-> prepend, pass |-> pass]

\* Sample::createOrReloadShaderModules
createOrReloadShaderModules(w) ==
  LET w1 == updateShaderDefinitions(w)
      load == LoadedShaders(w.m_state.algorithm)
      loaded == {l[1] : l \in load}
      w2 == IF loaded \cap DOMAIN w1.shaderModules # {}
            THEN DestroysLive(w1, "shaderModules") ELSE w1
      w3 == IF ExtensionAsserted(w.device, w.m_state.algorithm) THEN w2
            ELSE Fault(w2, "assertExtension")
  IN  [CreatesInto(w3, "shaderModules", FALSE) EXCEPT
         !.shaderModules =
            [n \in DOMAIN w1.shaderModules \cup loaded |->
               IF n \in loaded
               THEN createOrReloadShaderModule(
                      ShaderOf(w1, n), w1.m_prepend, (CHOOSE l \in load : l[1] = n)[2])
               ELSE w1.shaderModules[n]]]

\* m_shaderModuleManager.deinit, and the destroyShaderModules of the reload
\* menu entry: every module is destroyed and every ID becomes invalid.
destroyShaderModules(w) ==
  IF DOMAIN w.shaderModules # {}
  THEN [DestroysLive(w, "shaderModules") EXCEPT !.shaderModules = <<>>]
  ELSE w

(* ---- graphics pipelines (src/oit.cpp, src/main.cpp) ---- *)

\* What destroyGraphicsPipelines would be if it destroyed no pipeline.
destroyGraphicsPipelines_KeepsAll(w) == w

\* Sample::destroyGraphicsPipelines: each pipeline is destroyed if not null
\* and its handle nulled.  The World's pipelines field holds the handles
\* that are not null.
destroyGraphicsPipelines(w) ==
  IF DOMAIN w.pipelines # {}
  THEN [DestroysLive(w, "pipelines") EXCEPT !.pipelines = <<>>]
  ELSE w

\* Sample::createGraphicsPipeline: built from the two shader modules, the
\* pipeline layout of m_descriptorInfo, the render pass and subpass, with the
\* color image's size as viewport and m_state.msaa rasterization samples.
createGraphicsPipeline(w, vert, frag, blendMode, usesVertexInput, renderPass, subpass) ==
  LET rp == IF renderPass = "m_renderPassWeighted" THEN w.m_renderPassWeighted
            ELSE w.m_renderPassColorDepthClear
  IN  [live |-> TRUE, vert |-> vert, frag |-> frag,
       fragPrepend |-> ShaderOf(w, frag).prepend,
       blendMode |-> blendMode, usesVertexInput |-> usesVertexInput,
       renderPass |-> renderPass, subpass |-> subpass, msaa |-> w.m_state.msaa,
       width |-> ImageOf(w, "m_colorImage").width,
       height |-> ImageOf(w, "m_colorImage").height,
       abufferType |-> w.m_descriptorInfo.abufferType,
       layoutStale |-> ~w.m_descriptorInfo.live,
       renderPassStale |-> ~rp.live]

\* The pipelines of one algorithm: <<handle, vertex shader, fragment shader,
\* blend mode, uses vertex input, render pass, subpass>>.
AlgorithmPipelines(algorithm) ==
  LET color(p, f) == <<p, "m_shaderSceneVert", f, "PREMULTIPLIED", TRUE,
                       "m_renderPassColorDepthClear", 0>>
      composite(p, f) == <<p, "m_shaderFullScreenTriangleVert", f, "PREMULTIPLIED", FALSE,
                           "m_renderPassColorDepthClear", 0>>
  IN  CASE algorithm = OIT_SIMPLE ->
             {color("m_pipelineSimpleColor", "m_shaderSimpleColorFrag"),
              composite("m_pipelineSimpleComposite", "m_shaderSimpleCompositeFrag")}
        [] algorithm = OIT_LINKEDLIST ->
             {color("m_pipelineLinkedListColor", "m_shaderLinkedListColorFrag"),
              composite("m_pipelineLinkedListComposite", "m_shaderLinkedListCompositeFrag")}
        [] algorithm = OIT_LOOP ->
             {color("m_pipelineLoopDepth", "m_shaderLoopDepthFrag"),
              color("m_pipelineLoopColor", "m_shaderLoopColorFrag"),
              composite("m_pipelineLoopComposite", "m_shaderLoopCompositeFrag")}
        [] algorithm = OIT_LOOP64 ->
             {color("m_pipelineLoop64Color", "m_shaderLoop64ColorFrag"),
              composite("m_pipelineLoop64Composite", "m_shaderLoop64CompositeFrag")}
        [] algorithm = OIT_INTERLOCK ->
             {color("m_pipelineInterlockColor", "m_shaderInterlockColorFrag"),
              composite("m_pipelineInterlockComposite", "m_shaderInterlockCompositeFrag")}
        [] algorithm = OIT_SPINLOCK ->
             {color("m_pipelineSpinlockColor", "m_shaderSpinlockColorFrag"),
              composite("m_pipelineSpinlockComposite", "m_shaderSpinlockCompositeFrag")}
        [] algorithm = OIT_WEIGHTED ->
             {<<"m_pipelineWeightedColor", "m_shaderSceneVert", "m_shaderWeightedColorFrag",
                "WEIGHTED_COLOR", TRUE, "m_renderPassWeighted", 0>>,
              <<"m_pipelineWeightedComposite", "m_shaderFullScreenTriangleVert",
                "m_shaderWeightedCompositeFrag", "WEIGHTED_COMPOSITE", FALSE,
                "m_renderPassWeighted", 1>>}
        [] OTHER -> {}

\* Sample::createGraphicsPipelines: all pipelines are destroyed; the opaque
\* pipeline and those of the current algorithm are created.
createGraphicsPipelines(w) ==
  LET w1 == destroyGraphicsPipelines(w)
      build == {<<"m_pipelineOpaque", "m_shaderSceneVert", "m_shaderOpaqueFrag", "NONE",
                  TRUE, "m_renderPassColorDepthClear", 0>>}
               \cup AlgorithmPipelines(w.m_state.algorithm)
      built == {b[1] : b \in build}
      over == built \cap DOMAIN w1.pipelines # {}
  IN  [CreatesInto(w1, "pipelines", over) EXCEPT
         !.pipelines =
            [p \in DOMAIN w1.pipelines \cup built |->
               IF p \in built
               THEN LET b == CHOOSE c \in build : c[1] = p
                    IN  createGraphicsPipeline(w1, b[2], b[3], b[4], b[5], b[6], b[7])
               ELSE w1.pipelines[p]]]

(***************************************************************************)
(* Sample::updateRendererFromState (src/main.cpp): the dirty predicates,   *)
(* evaluated on the World after recomputeAntialiasingSettings, and the     *)
(* rebuild steps they guard.                                               *)
(***************************************************************************)

swapchainSizeChanged(w, force) ==
  \/ w.m_lastSwapChainSize[1] # w.swapSize[1]
  \/ w.m_lastSwapChainSize[2] # w.swapSize[2]
  \/ force

\* vsyncChanged computed without looking at the remembered vsync setting.
vsyncChanged_Always(w, force) == TRUE

vsyncChanged(w, force) == w.m_lastVsync # w.m_vsync \/ force

\* shadersNeedUpdate without the comparison of the algorithm.
shadersNeedUpdate_IgnoresAlgorithm(w, force) ==
  \/ w.m_state.oitLayers # w.m_lastState.oitLayers
  \/ w.m_state.tailBlend # w.m_lastState.tailBlend
  \/ w.m_state.msaa # w.m_lastState.msaa
  \/ w.m_state.sampleShading # w.m_lastState.sampleShading
  \/ force

shadersNeedUpdate(w, force) ==
  \/ w.m_state.algorithm # w.m_lastState.algorithm
  \/ w.m_state.oitLayers # w.m_lastState.oitLayers
  \/ w.m_state.tailBlend # w.m_lastState.tailBlend
  \/ w.m_state.msaa # w.m_lastState.msaa
  \/ w.m_state.sampleShading # w.m_lastState.sampleShading
  \/ force

\* sceneNeedsReinit comparing percentTransparent as well.
sceneNeedsReinit_OnPercentTransparent(w, force) ==
  \/ w.m_state.numObjects # w.m_lastState.numObjects
  \/ w.m_state.scaleWidth # w.m_lastState.scaleWidth
  \/ w.m_state.scaleMin # w.m_lastState.scaleMin
  \/ w.m_state.subdiv # w.m_lastState.subdiv
  \/ w.m_state.percentTransparent # w.m_lastState.percentTransparent
  \/ force

\* sceneNeedsReinit without the comparison of the subdivision count.
sceneNeedsReinit_IgnoresSubdiv(w, force) ==
  \/ w.m_state.numObjects # w.m_lastState.numObjects
  \/ w.m_state.scaleWidth # w.m_lastState.scaleWidth
  \/ w.m_state.scaleMin # w.m_lastState.scaleMin
  \/ force

sceneNeedsReinit(w, force) ==
  \/ w.m_state.numObjects # w.m_lastState.numObjects
  \/ w.m_state.scaleWidth # w.m_lastState.scaleWidth
  \/ w.m_state.scaleMin # w.m_lastState.scaleMin
  \/ w.m_state.subdiv # w.m_lastState.subdiv
  \/ force

\* imagesNeedReinit without the comparison of the algorithm.
imagesNeedReinit_IgnoresAlgorithm(w, force) ==
  \/ w.m_state.supersample # w.m_lastState.supersample
  \/ w.m_state.msaa # w.m_lastState.msaa
  \/ w.m_state.sampleShading # w.m_lastState.sampleShading
  \/ w.m_state.oitLayers # w.m_lastState.oitLayers
  \/ (/\ w.m_state.algorithm = OIT_LINKEDLIST
      /\ w.m_state.linkedListAllocatedPerElement
           # w.m_lastState.linkedListAllocatedPerElement)
  \/ swapchainSizeChanged(w, force)
  \/ force

\* imagesNeedReinit without the comparison of the layer count.
imagesNeedReinit_IgnoresLayers(w, force) ==
  \/ w.m_state.supersample # w.m_lastState.supersample
  \/ w.m_state.msaa # w.m_lastState.msaa
  \/ w.m_state.algorithm # w.m_lastState.algorithm
  \/ w.m_state.sampleShading # w.m_lastState.sampleShading
  \/ (/\ w.m_state.algorithm = OIT_LINKEDLIST
      /\ w.m_state.linkedListAllocatedPerElement
           # w.m_lastState.linkedListAllocatedPerElement)
  \/ swapchainSizeChanged(w, force)
  \/ force

imagesNeedReinit(w, force) ==
  \/ w.m_state.supersample # w.m_lastState.supersample
  \/ w.m_state.msaa # w.m_lastState.msaa
  \/ w.m_state.algorithm # w.m_lastState.algorithm
  \/ w.m_state.sampleShading # w.m_lastState.sampleShading
  \/ w.m_state.oitLayers # w.m_lastState.oitLayers
  \/ (/\ w.m_state.algorithm = OIT_LINKEDLIST
      /\ w.m_state.linkedListAllocatedPerElement
           # w.m_lastState.linkedListAllocatedPerElement)
  \/ swapchainSizeChanged(w, force)
  \/ force

\* descriptorSetsNeedReinit without the transition out of OIT_LOOP64.
descriptorSetsNeedReinit_IntoOnly(w, force) ==
  \/ (w.m_state.algorithm = OIT_LOOP64 /\ w.m_lastState.algorithm # OIT_LOOP64)
  \/ force

descriptorSetsNeedReinit(w, force) ==
  \/ (w.m_state.algorithm = OIT_LOOP64 /\ w.m_lastState.algorithm # OIT_LOOP64)
  \/ (w.m_state.algorithm # OIT_LOOP64 /\ w.m_lastState.algorithm = OIT_LOOP64)
  \/ force

framebuffersAndDescriptorsNeedReinit(w, force) ==
  imagesNeedReinit(w, force) \/ vsyncChanged(w, force) \/ force

renderPassesNeedReinit(w, force) ==
  w.m_state.msaa # w.m_lastState.msaa \/ force

\* pipelinesNeedReinit without the dependency of the pipelines on the frame
\* images.
pipelinesNeedReinit_ShadersOnly(w, force) ==
  \/ w.m_state.algorithm # w.m_lastState.algorithm
  \/ shadersNeedUpdate(w, force)

pipelinesNeedReinit(w, force) ==
  \/ w.m_state.algorithm # w.m_lastState.algorithm
  \/ shadersNeedUpdate(w, force)
  \/ imagesNeedReinit(w, force)

anythingChanged(w, force) ==
  \/ shadersNeedUpdate(w, force)
  \/ sceneNeedsReinit(w, force)
  \/ imagesNeedReinit(w, force)
  \/ descriptorSetsNeedReinit(w, force)
  \/ framebuffersAndDescriptorsNeedReinit(w, force)
  \/ renderPassesNeedReinit(w, force)

\* The predicates of one call, as the call computed them.
DirtyFlags(w, force) ==
  [swapchainSizeChanged |-> swapchainSizeChanged(w, force),
   vsyncChanged |-> vsyncChanged(w, force),
   shadersNeedUpdate |-> shadersNeedUpdate(w, force),
   sceneNeedsReinit |-> sceneNeedsReinit(w, force),
   imagesNeedReinit |-> imagesNeedReinit(w, force),
   descriptorSetsNeedReinit |-> descriptorSetsNeedReinit(w, force),
   framebuffersAndDescriptorsNeedReinit |-> framebuffersAndDescriptorsNeedReinit(w, force),
   renderPassesNeedReinit |-> renderPassesNeedReinit(w, force),
   pipelinesNeedReinit |-> pipelinesNeedReinit(w, force),
   anythingChanged |-> anythingChanged(w, force)]

\* The rebuild steps with the pipelines built before the shader modules.
RebuildSteps_PipelinesBeforeShaders ==
  <<"scene", "frameImages", "descriptorSets", "renderPasses",
    "framebuffersAndDescriptors", "pipelines", "shaderModules">>

\* The rebuild steps in the order the function runs them; each is guarded
\* by its predicate.
RebuildSteps ==
  <<"scene", "frameImages", "descriptorSets", "renderPasses",
    "framebuffersAndDescriptors", "shaderModules", "pipelines">>

\* The guards of a rebuild block that runs every step once anything changed.
RebuildGuard_Unguarded(flags, step) == TRUE

RebuildGuard(flags, step) ==
  CASE step = "scene" -> flags.sceneNeedsReinit
    [] step = "frameImages" -> flags.imagesNeedReinit
    [] step = "descriptorSets" -> flags.descriptorSetsNeedReinit
    [] step = "renderPasses" -> flags.renderPassesNeedReinit
    [] step = "framebuffersAndDescriptors" -> flags.framebuffersAndDescriptorsNeedReinit
    [] step = "shaderModules" -> flags.shadersNeedUpdate
    [] step = "pipelines" -> flags.pipelinesNeedReinit

RebuildStep(w, step) ==
  CASE step = "scene" -> initScene(w)
    [] step = "frameImages" -> createFrameImages(w)
    [] step = "descriptorSets" -> createDescriptorSets(w)
    [] step = "renderPasses" -> createRenderPasses(w)
    [] step = "framebuffersAndDescriptors" -> createFramebuffers(updateAllDescriptorSets(w))
    [] step = "shaderModules" -> createOrReloadShaderModules(w)
    [] step = "pipelines" -> createGraphicsPipelines(w)

\* The rebuild steps whose creation calls are checked: ImageAndView::init
\* and BufferAndView::init (NVVK_CHECK), createNonGUIRenderPasses
\* (NVVK_CHECK), createFramebuffers (throw), createGraphicsPipeline (throw).
FailingSteps == {"frameImages", "renderPasses", "framebuffersAndDescriptors", "pipelines"}

\* The first creation call of a rebuild step returns an error: the step has
\* destroyed the old objects of its category (and createFramebuffers is
\* reached after updateAllDescriptorSets), then the error is thrown.
CreationFails(w, step) ==
  Throw(CASE step = "frameImages" -> destroyFrameImages(w)
          [] step = "renderPasses" -> destroyRenderPasses(w)
          [] step = "framebuffersAndDescriptors" ->
               destroyFramebuffers(updateAllDescriptorSets(w))
          [] step = "pipelines" -> destroyGraphicsPipelines(w)
          [] OTHER -> w)

\* The guarded steps from the k-th on; nothing runs once the process ended.
RECURSIVE RebuildFrom(_, _, _)
RebuildFrom(w, flags, k) ==
  IF k > Len(RebuildSteps) \/ w.terminated THEN w
  ELSE RebuildFrom(IF ~RebuildGuard(flags, RebuildSteps[k]) THEN w
                   ELSE IF w.failing = RebuildSteps[k]
                        THEN CreationFails(w, RebuildSteps[k])
                        ELSE RebuildStep(w, RebuildSteps[k]),
                   flags, k + 1)

\* The end of the function with the vsync setting not remembered.
ApplyState_ForgetsVsync(w) ==
  Emit([w EXCEPT !.m_lastState = w.m_state,
                 !.m_lastSwapChainSize = w.swapSize],
       "applyState")

\* The end of the function: the applied state and the remembered swapchain
\* size and vsync become the current ones.
ApplyState(w) ==
  IF w.terminated THEN w
  ELSE Emit([w EXCEPT !.m_lastState = w.m_state,
                      !.m_lastSwapChainSize = w.swapSize,
                      !.m_lastVsync = w.m_vsync],
            "applyState")

\* The rebuild block run on a device that was not waited for.
RebuildIfChanged_NoWait(w, flags) ==
  IF flags.anythingChanged THEN RebuildFrom(w, flags, 1) ELSE w

\* The if(anythingChanged) block: the device is waited for, then the
\* guarded steps run.
RebuildIfChanged(w, flags) ==
  IF flags.anythingChanged THEN RebuildFrom(vkDeviceWaitIdle(w), flags, 1) ELSE w

\* The function from the computation of its predicates on.
ReconcileRecomputed(w, force) ==
  ApplyState(RebuildIfChanged(w, DirtyFlags(w, force)))

\* The function without its bookkeeping of the call.
Reconcile(w, force) ==
  ReconcileRecomputed([w EXCEPT !.m_state = recomputeAntialiasingSettings(@)], force)

\* What the GPU holds for rendering: the frame images and the A-buffer, the
\* descriptor-set layout, the render passes, the framebuffers, the shader
\* modules with their defines, the pipelines and the scene geometry.
GpuView(w) ==
  [images |-> w.images,
   m_oitABuffer |-> w.m_oitABuffer,
   descriptorLayout |-> [live |-> w.m_descriptorInfo.live,
                         abufferType |-> w.m_descriptorInfo.abufferType,
                         sets |-> w.m_descriptorInfo.sets],
   m_renderPassColorDepthClear |-> w.m_renderPassColorDepthClear,
   m_renderPassWeighted |-> w.m_renderPassWeighted,
   m_mainColorDepthFramebuffer |-> w.m_mainColorDepthFramebuffer,
   m_weightedFramebuffer |-> w.m_weightedFramebuffer,
   m_guiSwapChainFramebuffers |-> w.m_guiSwapChainFramebuffers,
   m_prepend |-> w.m_prepend,
   shaderModules |-> w.shaderModules,
   pipelines |-> w.pipelines,
   scene |-> w.scene]

\* The values updateRendererFromState compares.
CallInputs(w) ==
  [m_state |-> w.m_state, m_lastState |-> w.m_lastState,
   swapSize |-> w.swapSize, m_lastSwapChainSize |-> w.m_lastSwapChainSize,
   m_vsync |-> w.m_vsync, m_lastVsync |-> w.m_lastVsync]

\* What differs between the requested and the applied configuration: the
\* names of the State fields that differ, "swapchainSize" and "vsync".
Changed(in) ==
  {f \in StateFields : in.m_state[f] # in.m_lastState[f]}
    \cup (IF in.swapSize # in.m_lastSwapChainSize THEN {"swapchainSize"} ELSE {})
    \cup (IF in.m_vsync # in.m_lastVsync THEN {"vsync"} ELSE {})

\* The parts of GpuView in which what a call left differs from what a
\* forced call from the same World w would have left.
Divergence(force, left, w) ==
  IF force THEN {}
  ELSE LET rebuilt == GpuView(Reconcile(w, TRUE))
       IN  {f \in DOMAIN left : left[f] # rebuilt[f]}

\* The bookkeeping of a call that started from World w with the compared
\* values pre and left World done; prev is the record of the call before.
RecordCall(prev, force, pre, w, done) ==
  IF done.terminated THEN done ELSE
  Emit([done EXCEPT !.lastCall =
          [force |-> force,
           changed |-> Changed(pre),
           applied |-> pre.m_lastState,
           lastSize |-> pre.m_lastSwapChainSize,
           post |-> CallInputs(done),
           layouts |-> done.layouts,
           repeat |-> /\ ~force
                      /\ prev.called
                      /\ pre.m_state = prev.post.m_state
                      /\ pre.swapSize = prev.post.swapSize
                      /\ pre.m_vsync = prev.post.m_vsync
                      /\ pre.m_lastState = prev.post.m_lastState
                      /\ pre.m_lastSwapChainSize = prev.post.m_lastSwapChainSize
                      /\ pre.m_lastVsync = prev.post.m_lastVsync,
           called |-> TRUE,
           flags |-> DirtyFlags([w EXCEPT !.m_state = pre.m_state], force),
           divergence |-> Divergence(force, GpuView(done), w)]],
       "end:updateRendererFromState")

\* The function after recomputeAntialiasingSettings.
BeginCall(w, force) ==
  RecordCall(w.lastCall, force, CallInputs(w), w, ReconcileRecomputed(w, force))

\* Sample::updateRendererFromState.  The call is recorded in lastCall: its
\* force argument; what differed between the requested and the applied
\* configuration when it started, after the antialiasing fields were
\* recomputed (changed); the state that was applied when it started
\* (applied) and the swapchain size that was remembered (lastSize); the
\* values it left (post) and the image layouts tracked when it returned
\* (layouts); whether it directly
\* follows a call with the same request (repeat: not forced, the requested
\* state, swapchain size and vsync are those of the previous call, and what
\* that call remembered is untouched); the predicates it computed; and the
\* parts of GpuView in which what it left differs from what a forced call
\* from the same World would have left (divergence).
updateRendererFromState(w, force) ==
  BeginCall(Emit([w EXCEPT !.m_state = recomputeAntialiasingSettings(@)],
                 "begin:updateRendererFromState"),
            force)

\* Sample::resizeCommands: wait for the device, recreate the uniform
\* buffers, reconcile.
resizeCommands(w, forceRebuildAll) ==
  updateRendererFromState(createUniformBuffers(vkDeviceWaitIdle(w)), forceRebuildAll)

\* onWindowResize doing nothing at all for a zero size.
onWindowResize_IgnoresMinimize(w, width, height) ==
  IF width # 0 /\ height # 0
  THEN ScopeCommandBufferSubmit(
         resizeCommands([w EXCEPT !.swapSize = <<width, height>>], FALSE))
  ELSE w

\* Sample::onWindowResize.  A zero size only overwrites the remembered
\* swapchain size; otherwise the swapchain is updated to the new size and
\* resizeCommands runs in a command buffer submitted and waited for at the
\* end of its scope.
onWindowResize(w, width, height) ==
  IF width # 0 /\ height # 0
  THEN ScopeCommandBufferSubmit(
         resizeCommands([w EXCEPT !.swapSize = <<width, height>>], FALSE))
  ELSE [w EXCEPT !.m_lastSwapChainSize = <<width, height>>]

\* Sample::onKeyboard, KEY_V pressed: vsync is toggled and the swapchain
\* rebuilt at its current size.
onKeyboard(w) ==
  onWindowResize([w EXCEPT !.m_vsync = ~@], w.swapSize[1], w.swapSize[2])

\* Sample::init from the swapchain's creation on: resizeCommands(force) in a
\* scoped command buffer.
SampleInit(w) ==
  ScopeCommandBufferSubmit(
    resizeCommands([w EXCEPT !.swapSize = w.windowSize], TRUE))

\* The reload-shaders menu entry of Sample::onUIMenu.
reloadShaders(w) ==
  updateRendererFromState(destroyShaderModules(vkDeviceWaitIdle(w)), TRUE)

\* The fence wait left out: the slot is taken as it is.
setCycleAndWait_NoWait(w, slot) == Emit(w, "waitFence")

\* m_ringFences.setCycleAndWait: the frame that used the slot has finished.
setCycleAndWait(w, slot) == Emit([w EXCEPT !.inFlight = @ \ {slot}], "waitFence")

\* The memcpy of updateUniformBuffer: the slot's uniform buffer is written.
MapAndCopy(w, slot) ==
  LET live == IF w.m_uniformBuffers[slot] THEN w
              ELSE Fault(w, "wroteDestroyedUniformBuffer")
  IN  Emit([(IF slot \in w.inFlight THEN Fault(live, "wroteInFlightUniformBuffer")
             ELSE live)
            EXCEPT !.uniformData = w.m_sceneUbo],
           "updateUniformBuffer")

\* Sample::updateUniformBuffer: the viewport is taken from the color image
\* as it is at the call, and the scene UBO is copied to the slot's buffer.
updateUniformBuffer(w, slot) ==
  LET width == IF "m_colorImage" \in DOMAIN w.images
               THEN w.images["m_colorImage"].width ELSE 0
      height == IF "m_colorImage" \in DOMAIN w.images
                THEN w.images["m_colorImage"].height ELSE 0
  IN  MapAndCopy([w EXCEPT !.m_sceneUbo.viewport = <<width, height, width * height>>],
                 slot)

\* m_ringCmdPool.createCommandBuffer: the slot's command buffer is begun
\* anew.
createCommandBuffer(w, slot) ==
  IF slot \in w.inFlight THEN Fault(w, "recordedInFlightCommandBuffer") ELSE w

\* The frame's command buffer is submitted with the slot's fence.
vkQueueSubmit(w, slot) ==
  IF w.terminated THEN w
  ELSE Emit([w EXCEPT !.inFlight = @ \cup {slot}, !.idle = FALSE], "vkQueueSubmit")

(* ---- CachingShaderCompiler (src/utilities_vk.h) ---- *)

\* The shader files compile is called with.
FileNames == {"oitScene.vert.glsl", "oitSimple.frag.glsl"}

\* struct CompileInput
CompileInput(shader_kind, filename, defines) ==
  [shader_kind |-> shader_kind, filename |-> filename, defines |-> defines]

\* The inputs tried: one input, and for each of its three fields the input
\* that differs from it in that field alone.
CompileInputs ==
  {CompileInput("shaderc_fragment_shader", "oitSimple.frag.glsl", <<>>),
   CompileInput("shaderc_vertex_shader", "oitSimple.frag.glsl", <<>>),
   CompileInput("shaderc_fragment_shader", "oitScene.vert.glsl", <<>>),
   CompileInput("shaderc_fragment_shader", "oitSimple.frag.glsl",
                <<<<"PASS", "PASS_COLOR">>>>)}

\* An equality of CompileInput that leaves the defines out.
CompileInputEquals_IgnoresDefines(lhs, rhs) ==
  /\ lhs.shader_kind = rhs.shader_kind
  /\ lhs.filename = rhs.filename

\* operator==(const CompileInput&, const CompileInput&)
CompileInputEquals(lhs, rhs) ==
  /\ lhs.shader_kind = rhs.shader_kind
  /\ lhs.filename = rhs.filename
  /\ lhs.defines = rhs.defines

\* The null handle; the modules vkCreateShaderModule returns are numbered
\* from 1 in the order of their creation.
VK_NULL_HANDLE == 0

\* No call of compile has returned since the last other operation.
NotCalled ==
  [called |-> FALSE, input |-> CompileInput("", "", <<>>), found |-> FALSE,
   modified_time |-> 0, before |-> {}, compiled |-> FALSE,
   module |-> VK_NULL_HANDLE]

\* A CachingShaderCompiler with an empty m_cache, and the shader files as
\* findFile and last_write_time see them: the names found and their
\* modification times.  The cache is the set of its entries, each a key
\* (input) with its ShaderCacheValue (module, modified_time).  created
\* counts the modules created (the handles are 1 .. created), destroyed is
\* the set of handles passed to vkDestroyShaderModule and destroyedTwice
\* those passed to it again, calls counts the calls of compile, and returned
\* describes the call of compile that returned last: its input, whether the
\* file was found, the file's modification time, the cache before the call,
\* whether the file was compiled, and the module returned.
NewCompiler(found, last_write_time) ==
  [m_cache |-> {}, found |-> found, last_write_time |-> last_write_time,
   created |-> 0, destroyed |-> {}, destroyedTwice |-> {}, calls |-> 0,
   returned |-> NotCalled]

\* m_cache.find(input): the entries whose key equals input.
find(m_cache, input) == {e \in m_cache : CompileInputEquals(e.input, input)}

\* m_cache[input] = result: the value of the entry with an equal key is
\* replaced, and without such an entry one is inserted.
CacheAssign(m_cache, input, module, modified_time) ==
  IF find(m_cache, input) = {}
  THEN m_cache \cup {[input |-> input, module |-> module,
                      modified_time |-> modified_time]}
  ELSE {IF e \in find(m_cache, input)
        THEN [e EXCEPT !.module = module, !.modified_time = modified_time]
        ELSE e : e \in m_cache}

\* What compile returns and leaves, given the cache lookup.
CompileFound(c, input, modified_time, hit, spirv) ==
  IF \E e \in hit : e.modified_time >= modified_time
  THEN [c EXCEPT !.calls = @ + 1,
                 !.returned =
                    [called |-> TRUE, input |-> input, found |-> TRUE,
                     modified_time |-> modified_time, before |-> c.m_cache,
                     compiled |-> FALSE,
                     module |-> (CHOOSE e \in hit : TRUE).module]]
  ELSE [c EXCEPT !.calls = @ + 1,
                 !.created = IF spirv THEN @ + 1 ELSE @,
                 !.m_cache = CacheAssign(@, input,
                               IF spirv THEN c.created + 1 ELSE VK_NULL_HANDLE,
                               modified_time),
                 !.returned =
                    [called |-> TRUE, input |-> input, found |-> TRUE,
                     modified_time |-> modified_time, before |-> c.m_cache,
                     compiled |-> TRUE,
                     module |-> IF spirv THEN c.created + 1 ELSE VK_NULL_HANDLE]]

\* CachingShaderCompiler::compile.  spirv: the compilation yields SPIR-V.
\* A file that is not found gives the null handle; a cached entry at least
\* as new as the file gives its module; otherwise the file is compiled and
\* the result stored under the input, a failed compilation storing the null
\* handle.
compile(c, input, spirv) ==
  IF input.filename \notin c.found
  THEN [c EXCEPT !.calls = @ + 1,
                 !.returned =
                    [called |-> TRUE, input |-> input, found |-> FALSE,
                     modified_time |-> 0, before |-> c.m_cache,
                     compiled |-> FALSE, module |-> VK_NULL_HANDLE]]
  ELSE CompileFound(c, input, c.last_write_time[input.filename],
                    find(c.m_cache, input), spirv)

\* CachingShaderCompiler::clear: every cached module is destroyed and the
\* cache emptied.
clear(c) ==
  LET cached == {e.module : e \in c.m_cache} \ {VK_NULL_HANDLE}
  IN  [c EXCEPT !.m_cache = {}, !.returned = NotCalled,
                !.destroyed = @ \cup cached,
                !.destroyedTwice = @ \cup (c.destroyed \cap cached)]

(* ---- recording a frame (src/oitRender.cpp) ---- *)

\* One recorded command.  A draw carries the pipeline bound just before it
\* as its target, a clear, fill or image barrier the image or buffer it
\* acts on, a render pass command its render pass; count and first are the
\* index (or vertex) count and the first index of a draw; layout is the
\* image layout passed to an image barrier (the new layout) or to a clear
\* (the layout the image is in), "NONE" for the other commands.  The binds
\* of descriptor set, vertex and index buffer are not listed.
Cmd(cmd, target, count, first) ==
  [cmd |-> cmd, target |-> target, count |-> count, first |-> first, layout |-> "NONE"]

\* The layout tracked for an image (ImageAndView's current layout).
LayoutOf(w, image) ==
  IF image \in DOMAIN w.layouts THEN w.layouts[image] ELSE "UNDEFINED"

\* What recording the commands cmds leaves in the tracked layouts: each
\* transitionTo stores its new layout in the image.
RECURSIVE Tracked(_, _)
Tracked(layouts, cmds) ==
  IF cmds = <<>> THEN layouts
  ELSE LET c == Head(cmds)
       IN  Tracked(IF c.cmd = "cmdImageMemoryBarrier" /\ c.target \in DOMAIN layouts
                   THEN [layouts EXCEPT ![c.target] = c.layout] ELSE layouts,
                   Tail(cmds))

\* vkCmdClearColorImage on an image, in the layout tracked for it.
ClearColorImage(w, image) ==
  [Cmd("vkCmdClearColorImage", image, 0, 0) EXCEPT !.layout = LayoutOf(w, image)]

\* m_objectTriangleIndices as initScene left it: the index count of the
\* first sphere, a grid of 2 * subdiv by subdiv quads of two triangles.
m_objectTriangleIndices(w) == 2 * w.scene.subdiv * w.scene.subdiv * 2 * 3

\* m_sceneTriangleIndices as initScene left it: every sphere has the same
\* number of indices.
m_sceneTriangleIndices(w) == w.scene.numObjects * m_objectTriangleIndices(w)

\* The number of transparent objects with the percentage rounded up.
NumTransparent_RoundsUp(numObjects, percentTransparent) ==
  LET numTransparent == (numObjects * percentTransparent + 99) \div 100
  IN  IF numTransparent > numObjects THEN numObjects ELSE numTransparent

\* The number of transparent objects computed in Sample::render.
NumTransparent(numObjects, percentTransparent) ==
  LET numTransparent == (numObjects * percentTransparent) \div 100
  IN  IF numTransparent > numObjects THEN numObjects ELSE numTransparent

\* Sample::drawSceneObjects: the opaque pipeline draws numObjects objects
\* from firstObject on.
drawSceneObjects(w, firstObject, numObjects) ==
  <<Cmd("vkCmdDrawIndexed", "m_pipelineOpaque",
        numObjects * m_objectTriangleIndices(w),
        firstObject * m_objectTriangleIndices(w))>>

\* ImageAndView::transitionTo: an image memory barrier on the whole image
\* from the tracked layout to dstLayout, which becomes the tracked layout.
transitionTo(image, dstLayout) ==
  [Cmd("cmdImageMemoryBarrier", image, 0, 0) EXCEPT !.layout = dstLayout]

\* A color or depth pass over the first numObjects objects.
DrawObjects(w, pipeline, numObjects) ==
  Cmd("vkCmdDrawIndexed", pipeline, numObjects * m_objectTriangleIndices(w), 0)

\* A composite pass: a full-screen triangle.
DrawFullScreenTriangle(pipeline) == Cmd("vkCmdDraw", pipeline, 3, 0)

clearTransparentSimple(w) ==
  <<ClearColorImage(w, "m_oitAuxImage")>>

drawTransparentSimple(w, numObjects) ==
  <<DrawObjects(w, "m_pipelineSimpleColor", numObjects),
    DrawFullScreenTriangle("m_pipelineSimpleComposite")>>

clearTransparentLinkedList(w) ==
  <<ClearColorImage(w, "m_oitAuxImage"),
    ClearColorImage(w, "m_oitCounterImage")>>

drawTransparentLinkedList(w, numObjects) ==
  <<DrawObjects(w, "m_pipelineLinkedListColor", numObjects),
    DrawFullScreenTriangle("m_pipelineLinkedListComposite")>>

\* vkCmdFillBuffer on the A-buffer: count is the size and first the offset
\* of the range filled, in bytes.
FillBuffer(offset, size) == Cmd("vkCmdFillBuffer", "m_oitABuffer", size, offset)

\* A fill of VK_WHOLE_SIZE from offset 0: the range is the buffer.
FillWholeBuffer(w) == FillBuffer(0, IF w.m_oitABuffer.live THEN w.m_oitABuffer.size ELSE 0)

\* The bytes of one sample's depth part as clearTransparentLoop computes
\* them: viewport.z * sizeof(uint32_t) * oitLayers.
ClearSize(w) == w.m_sceneUbo.viewport[3] * 4 * w.m_state.oitLayers

\* Sample::clearTransparentLoop: one fill of the depth part per sample that
\* is shaded, then a fill of the whole A-buffer.
clearTransparentLoop(w) ==
  [i \in 1 .. (IF w.m_state.sampleShading THEN w.m_state.msaa ELSE 1) |->
     FillBuffer((i - 1) * ClearSize(w) * 2, ClearSize(w))]
  \o <<FillWholeBuffer(w)>>

\* drawTransparentLoop with the color pass recorded before the depth pass.
drawTransparentLoop_ColorFirst(w, numObjects) ==
  <<DrawObjects(w, "m_pipelineLoopColor", numObjects),
    DrawObjects(w, "m_pipelineLoopDepth", numObjects),
    DrawFullScreenTriangle("m_pipelineLoopComposite")>>

drawTransparentLoop(w, numObjects) ==
  <<DrawObjects(w, "m_pipelineLoopDepth", numObjects),
    DrawObjects(w, "m_pipelineLoopColor", numObjects),
    DrawFullScreenTriangle("m_pipelineLoopComposite")>>

clearTransparentLoop64(w) == <<FillWholeBuffer(w)>>

drawTransparentLoop64(w, numObjects) ==
  <<DrawObjects(w, "m_pipelineLoop64Color", numObjects),
    DrawFullScreenTriangle("m_pipelineLoop64Composite")>>

clearTransparentLock(w, useInterlock) ==
  <<ClearColorImage(w, "m_oitAuxDepthImage"),
    ClearColorImage(w, "m_oitAuxImage")>>
  \o (IF ~useInterlock THEN <<ClearColorImage(w, "m_oitAuxSpinImage")>>
      ELSE <<>>)

drawTransparentLock(w, numObjects, useInterlock) ==
  <<DrawObjects(w, IF useInterlock THEN "m_pipelineInterlockColor"
                   ELSE "m_pipelineSpinlockColor", numObjects),
    DrawFullScreenTriangle(IF useInterlock THEN "m_pipelineInterlockComposite"
                           ELSE "m_pipelineSpinlockComposite")>>

\* drawTransparentWeighted beginning the weighted render pass without
\* ending the main one.
drawTransparentWeighted_Nested(w, numObjects) ==
  <<transitionTo("m_colorImage", "COLOR_ATTACHMENT_OPTIMAL"),
    Cmd("vkCmdBeginRenderPass", "m_renderPassWeighted", 0, 0),
    DrawObjects(w, "m_pipelineWeightedColor", numObjects),
    Cmd("vkCmdNextSubpass", "m_renderPassWeighted", 0, 0),
    DrawFullScreenTriangle("m_pipelineWeightedComposite")>>

\* drawTransparentWeighted recording both draws in the main render pass.
drawTransparentWeighted_SamePass(w, numObjects) ==
  <<DrawObjects(w, "m_pipelineWeightedColor", numObjects),
    DrawFullScreenTriangle("m_pipelineWeightedComposite")>>

\* Sample::drawTransparentWeighted: the main render pass is ended and the
\* weighted one, whose begin clears its two targets, takes over.
drawTransparentWeighted(w, numObjects) ==
  <<Cmd("vkCmdEndRenderPass", "m_renderPassColorDepthClear", 0, 0),
    transitionTo("m_colorImage", "COLOR_ATTACHMENT_OPTIMAL"),
    Cmd("vkCmdBeginRenderPass", "m_renderPassWeighted", 0, 0),
    DrawObjects(w, "m_pipelineWeightedColor", numObjects),
    Cmd("vkCmdNextSubpass", "m_renderPassWeighted", 0, 0),
    DrawFullScreenTriangle("m_pipelineWeightedComposite")>>

\* The clears Sample::render records before it starts a render pass.
ClearTransparent(w, algorithm) ==
  CASE algorithm = OIT_SIMPLE -> clearTransparentSimple(w)
    [] algorithm = OIT_LINKEDLIST -> clearTransparentLinkedList(w)
    [] algorithm = OIT_LOOP -> clearTransparentLoop(w)
    [] algorithm = OIT_LOOP64 -> clearTransparentLoop64(w)
    [] algorithm \in {OIT_INTERLOCK, OIT_SPINLOCK} ->
         clearTransparentLock(w, algorithm = OIT_INTERLOCK)
    [] OTHER -> <<>>

\* The transparent draws of OIT_SIMPLE recorded whatever the algorithm.
DrawTransparent_Simple(w, algorithm, numTransparent) ==
  drawTransparentSimple(w, numTransparent)

\* The transparent draws Sample::render records after the opaque draw.
DrawTransparent(w, algorithm, numTransparent) ==
  CASE algorithm = OIT_SIMPLE -> drawTransparentSimple(w, numTransparent)
    [] algorithm = OIT_LINKEDLIST -> drawTransparentLinkedList(w, numTransparent)
    [] algorithm = OIT_LOOP -> drawTransparentLoop(w, numTransparent)
    [] algorithm = OIT_LOOP64 -> drawTransparentLoop64(w, numTransparent)
    [] algorithm \in {OIT_INTERLOCK, OIT_SPINLOCK} ->
         drawTransparentLock(w, numTransparent, algorithm = OIT_INTERLOCK)
    [] algorithm = OIT_WEIGHTED -> drawTransparentWeighted(w, numTransparent)
    [] OTHER -> <<>>

\* Sample::render with the transparent draws recorded before the opaque one.
RenderObjects_TransparentFirst(w, numObjects, numTransparent) ==
  ClearTransparent(w, w.m_state.algorithm)
  \o <<transitionTo("m_colorImage", "COLOR_ATTACHMENT_OPTIMAL"),
        Cmd("vkCmdBeginRenderPass", "m_renderPassColorDepthClear", 0, 0)>>
  \o DrawTransparent(w, w.m_state.algorithm, numTransparent)
  \o drawSceneObjects(w, numTransparent, numObjects - numTransparent)
  \o <<Cmd("vkCmdEndRenderPass",
           IF w.m_state.algorithm = OIT_WEIGHTED THEN "m_renderPassWeighted"
           ELSE "m_renderPassColorDepthClear", 0, 0)>>

\* Sample::render from the clears on, with numObjects and numTransparent as
\* it computed them: clears, the main render pass with the opaque draw of
\* the last numOpaque objects, the transparent draws, the pass's end.
RenderObjects(w, numObjects, numTransparent) ==
  ClearTransparent(w, w.m_state.algorithm)
  \o <<transitionTo("m_colorImage", "COLOR_ATTACHMENT_OPTIMAL"),
        Cmd("vkCmdBeginRenderPass", "m_renderPassColorDepthClear", 0, 0)>>
  \o drawSceneObjects(w, numTransparent, numObjects - numTransparent)
  \o DrawTransparent(w, w.m_state.algorithm, numTransparent)
  \o <<Cmd("vkCmdEndRenderPass",
           IF w.m_state.algorithm = OIT_WEIGHTED THEN "m_renderPassWeighted"
           ELSE "m_renderPassColorDepthClear", 0, 0)>>

\* Sample::render after its call of updateRendererFromState: the number of
\* objects is what the index counts of the scene give.
RenderRecorded(w, numObjects) ==
  IF w.terminated THEN w
  ELSE Emit([w EXCEPT !.cmdBuffer =
               RenderObjects(w, numObjects,
                             NumTransparent(numObjects, w.m_state.percentTransparent)),
                      !.layouts =
               Tracked(@, RenderObjects(w, numObjects,
                             NumTransparent(numObjects, w.m_state.percentTransparent)))],
            "record")

RecordFrame(w) ==
  RenderRecorded(w, m_sceneTriangleIndices(w) \div m_objectTriangleIndices(w))

\* Sample::render: reconcile, then record the frame's commands.
render(w) == RecordFrame(updateRendererFromState(w, FALSE))

\* doTransition on the acquired swapchain image.
doTransition(newLayout) ==
  [Cmd("cmdImageMemoryBarrier", "swapChainImage", 0, 0) EXCEPT !.layout = newLayout]

\* Sample::copyOffscreenToBackBuffer: the color image is made a transfer
\* source; with MSAA or supersampling it is resolved or blitted into the
\* downsample image, which then is the source; the source is copied to the
\* swapchain image; the color image is transitioned back to the layout it
\* had.
copyOffscreenToBackBuffer(w) ==
  <<transitionTo("m_colorImage", "TRANSFER_SRC_OPTIMAL")>>
  \o (IF w.m_state.msaa # 1 \/ w.m_state.supersample # 1
      THEN <<transitionTo("m_downsampleImage", "TRANSFER_DST_OPTIMAL"),
             Cmd(IF w.m_state.msaa # 1 THEN "vkCmdResolveImage" ELSE "vkCmdBlitImage",
                 "m_downsampleImage", 0, 0),
             transitionTo("m_downsampleImage", "TRANSFER_SRC_OPTIMAL")>>
      ELSE <<>>)
  \o <<doTransition("TRANSFER_DST_OPTIMAL"),
        Cmd("vkCmdCopyImage", "swapChainImage", 0, 0),
        doTransition("COLOR_ATTACHMENT_OPTIMAL"),
        transitionTo("m_colorImage", LayoutOf(w, "m_colorImage"))>>

\* The GUI render pass of Sample::display: Dear ImGui's draw commands are
\* recorded in it if the GUI is shown.
RenderGUI(w) ==
  <<Cmd("vkCmdBeginRenderPass", "m_renderPassGUI", 0, 0)>>
  \o (IF w.m_state.drawUI THEN <<Cmd("ImGui::RenderDrawDataVK", "m_renderPassGUI", 0, 0)>>
      ELSE <<>>)
  \o <<Cmd("vkCmdEndRenderPass", "m_renderPassGUI", 0, 0)>>

\* Sample::display after render: the copy to the back buffer and the GUI.
RecordBackBuffer(w) ==
  IF w.terminated THEN w
  ELSE [w EXCEPT !.backBufferCmds = copyOffscreenToBackBuffer(w) \o RenderGUI(w),
                 !.layouts = Tracked(@, copyOffscreenToBackBuffer(w))]

\* Sample::display for the acquired swapchain image `slot` and the user's
\* entries `ui` of this frame.  Nothing happens while the window is
\* minimized.  Otherwise: wait for the slot's fence, write the slot's
\* uniform buffer, run the GUI, reconcile and record (render), record the
\* copy to the back buffer and the GUI render pass, submit.
display(w, slot, ui) ==
  IF w.windowSize[1] = 0 \/ w.windowSize[2] = 0 THEN w
  ELSE vkQueueSubmit(
         RecordBackBuffer(
           render(createCommandBuffer(
                    [updateUniformBuffer(setCycleAndWait(w, slot), slot)
                       EXCEPT !.m_state = DoGUI(@, ui)],
                    slot))),
         slot)

\* Sample::close: wait for the device, then destroy every category.
close(w) ==
  LET w1 == vkDeviceWaitIdle(w)
      w2 == destroyGraphicsPipelines(w1)
      w3 == destroyShaderModules(w2)
      w4 == destroyFramebuffers(w3)
      w5 == destroyRenderPasses(w4)
      w6 == destroyDescriptorSets(w5)
      w7 == destroyFrameImages(w6)
      w8 == destroyScene(w7)
      w9 == destroyUniformBuffers(w8)
  IN  [w9 EXCEPT !.closed = TRUE]

(***************************************************************************)
(* The state machine.                                                      *)
(***************************************************************************)

VARIABLES
  m_state, m_lastState,            \* requested and applied State
  m_vsync, m_lastVsync,
  windowSize,                      \* <<width, height>> of the window
  swapSize,                        \* <<width, height>> of the swapchain
  m_lastSwapChainSize,             \* m_lastSwapChainWidth, m_lastSwapChainHeight
  m_uniformBuffers, scene, images, m_oitABuffer, m_sceneUbo, m_descriptorInfo,
  m_renderPassColorDepthClear, m_renderPassWeighted,
  m_mainColorDepthFramebuffer, m_weightedFramebuffer, m_guiSwapChainFramebuffers,
  m_prepend, shaderModules, pipelines,
  closed,                          \* close() has run
  inFlight, idle, retired, trace, faults, lastCall,
  cmdBuffer,                       \* the commands the last frame recorded
  backBufferCmds,                  \* ... and those display recorded after them
  layouts,                         \* the layout tracked for each live image
  uniformData,                     \* the SceneData last copied to a uniform buffer
  device,                          \* what the Vulkan device supports
  terminated,                      \* the process has ended on an error
  shaderCompiler,                  \* a CachingShaderCompiler and its files
  events                           \* user events so far

vars ==
  <<m_state, m_lastState, m_vsync, m_lastVsync, windowSize, swapSize,
    m_lastSwapChainSize, m_uniformBuffers, scene, images, m_oitABuffer, m_sceneUbo,
    m_descriptorInfo, m_renderPassColorDepthClear, m_renderPassWeighted,
    m_mainColorDepthFramebuffer, m_weightedFramebuffer, m_guiSwapChainFramebuffers,
    m_prepend, shaderModules, pipelines, closed, inFlight, idle, retired, trace,
    faults, lastCall, cmdBuffer, backBufferCmds, layouts, uniformData, device,
    terminated,
    shaderCompiler, events>>

\* The fields of SceneData that depend on the frame resources, before any
\* of them is written: viewport is (width, height, width * height).
NullSceneData == [viewport |-> <<0, 0, 0>>, linkedListAllocatedPerElement |-> 0]

\* The Sample object as constructed, before init: default member values, no
\* GPU object.
Constructed ==
  LET w == [m_state |-> DefaultState, m_lastState |-> DefaultState,
            m_vsync |-> FALSE, m_lastVsync |-> FALSE,
            windowSize |-> <<SurfaceWidth, SurfaceHeight>>,
            swapSize |-> <<0, 0>>, m_lastSwapChainSize |-> <<0, 0>>,
            m_uniformBuffers |-> <<>>, scene |-> NullScene,
            images |-> <<>>, layouts |-> <<>>,
            uniformData |-> NullSceneData,
            m_oitABuffer |-> NullBuffer,
            m_sceneUbo |-> NullSceneData,
            m_descriptorInfo |-> NullDescriptors,
            m_renderPassColorDepthClear |-> NullRenderPass,
            m_renderPassWeighted |-> NullRenderPass,
            m_mainColorDepthFramebuffer |-> NullFramebuffer,
            m_weightedFramebuffer |-> NullFramebuffer,
            m_guiSwapChainFramebuffers |-> "empty",
            m_prepend |-> NullPrepend,
            shaderModules |-> <<>>,
            pipelines |-> <<>>,
            closed |-> FALSE,
            inFlight |-> {}, idle |-> TRUE, retired |-> FALSE, trace |-> <<>>,
            faults |-> {}, device |-> SupportedDevice,
            failing |-> "none", terminated |-> FALSE]
  IN  [m_state |-> w.m_state, m_lastState |-> w.m_lastState,
       m_vsync |-> w.m_vsync, m_lastVsync |-> w.m_lastVsync,
       windowSize |-> w.windowSize, swapSize |-> w.swapSize,
       m_lastSwapChainSize |-> w.m_lastSwapChainSize,
       m_uniformBuffers |-> w.m_uniformBuffers, scene |-> w.scene,
       images |-> w.images, m_oitABuffer |-> w.m_oitABuffer,
       m_sceneUbo |-> w.m_sceneUbo, m_descriptorInfo |-> w.m_descriptorInfo,
       m_renderPassColorDepthClear |-> w.m_renderPassColorDepthClear,
       m_renderPassWeighted |-> w.m_renderPassWeighted,
       m_mainColorDepthFramebuffer |-> w.m_mainColorDepthFramebuffer,
       m_weightedFramebuffer |-> w.m_weightedFramebuffer,
       m_guiSwapChainFramebuffers |-> w.m_guiSwapChainFramebuffers,
       m_prepend |-> w.m_prepend, shaderModules |-> w.shaderModules,
       pipelines |-> w.pipelines, closed |-> w.closed,
       inFlight |-> w.inFlight, idle |-> w.idle, retired |-> w.retired,
       trace |-> w.trace, faults |-> w.faults, cmdBuffer |-> <<>>,
       backBufferCmds |-> <<>>, layouts |-> w.layouts,
       uniformData |-> w.uniformData,
       device |-> w.device, failing |-> w.failing, terminated |-> w.terminated,
       lastCall |-> [force |-> FALSE, changed |-> {}, applied |-> w.m_lastState,
                     lastSize |-> w.m_lastSwapChainSize,
                     post |-> CallInputs(w),
                     layouts |-> w.layouts,
                     repeat |-> FALSE,
                     called |-> FALSE, flags |-> DirtyFlags(w, FALSE),
                     divergence |-> {}]]

\* The current state as a World whose handler starts now.
World ==
  [m_state |-> m_state, m_lastState |-> m_lastState,
   m_vsync |-> m_vsync, m_lastVsync |-> m_lastVsync,
   windowSize |-> windowSize, swapSize |-> swapSize,
   m_lastSwapChainSize |-> m_lastSwapChainSize,
   m_uniformBuffers |-> m_uniformBuffers, scene |-> scene,
   images |-> images, m_oitABuffer |-> m_oitABuffer,
   m_sceneUbo |-> m_sceneUbo, m_descriptorInfo |-> m_descriptorInfo,
   m_renderPassColorDepthClear |-> m_renderPassColorDepthClear,
   m_renderPassWeighted |-> m_renderPassWeighted,
   m_mainColorDepthFramebuffer |-> m_mainColorDepthFramebuffer,
   m_weightedFramebuffer |-> m_weightedFramebuffer,
   m_guiSwapChainFramebuffers |-> m_guiSwapChainFramebuffers,
   m_prepend |-> m_prepend, shaderModules |-> shaderModules,
   pipelines |-> pipelines, closed |-> closed,
   inFlight |-> inFlight, idle |-> idle, retired |-> FALSE, trace |-> <<>>,
   faults |-> faults, lastCall |-> lastCall, cmdBuffer |-> <<>>,
   backBufferCmds |-> <<>>, layouts |-> layouts,
   uniformData |-> uniformData,
   device |-> device, failing |-> "none", terminated |-> terminated]

\* The state a handler leaves.
Becomes(w) ==
  /\ m_state' = w.m_state /\ m_lastState' = w.m_lastState
  /\ m_vsync' = w.m_vsync /\ m_lastVsync' = w.m_lastVsync
  /\ windowSize' = w.windowSize /\ swapSize' = w.swapSize
  /\ m_lastSwapChainSize' = w.m_lastSwapChainSize
  /\ m_uniformBuffers' = w.m_uniformBuffers /\ scene' = w.scene
  /\ images' = w.images /\ m_oitABuffer' = w.m_oitABuffer
  /\ m_sceneUbo' = w.m_sceneUbo /\ m_descriptorInfo' = w.m_descriptorInfo
  /\ m_renderPassColorDepthClear' = w.m_renderPassColorDepthClear
  /\ m_renderPassWeighted' = w.m_renderPassWeighted
  /\ m_mainColorDepthFramebuffer' = w.m_mainColorDepthFramebuffer
  /\ m_weightedFramebuffer' = w.m_weightedFramebuffer
  /\ m_guiSwapChainFramebuffers' = w.m_guiSwapChainFramebuffers
  /\ m_prepend' = w.m_prepend /\ shaderModules' = w.shaderModules
  /\ pipelines' = w.pipelines /\ closed' = w.closed
  /\ inFlight' = w.inFlight /\ idle' = w.idle /\ retired' = w.retired
  /\ trace' = w.trace /\ faults' = w.faults /\ lastCall' = w.lastCall
  /\ cmdBuffer' = w.cmdBuffer /\ device' = w.device
  /\ terminated' = w.terminated
  /\ backBufferCmds' = w.backBufferCmds /\ layouts' = w.layouts
  /\ uniformData' = w.uniformData
  /\ UNCHANGED shaderCompiler

\* The variables hold the World w and no event has happened.
StartsAs(w) ==
  /\ m_state = w.m_state /\ m_lastState = w.m_lastState
  /\ m_vsync = w.m_vsync /\ m_lastVsync = w.m_lastVsync
  /\ windowSize = w.windowSize /\ swapSize = w.swapSize
  /\ m_lastSwapChainSize = w.m_lastSwapChainSize
  /\ m_uniformBuffers = w.m_uniformBuffers /\ scene = w.scene
  /\ images = w.images /\ m_oitABuffer = w.m_oitABuffer
  /\ m_sceneUbo = w.m_sceneUbo /\ m_descriptorInfo = w.m_descriptorInfo
  /\ m_renderPassColorDepthClear = w.m_renderPassColorDepthClear
  /\ m_renderPassWeighted = w.m_renderPassWeighted
  /\ m_mainColorDepthFramebuffer = w.m_mainColorDepthFramebuffer
  /\ m_weightedFramebuffer = w.m_weightedFramebuffer
  /\ m_guiSwapChainFramebuffers = w.m_guiSwapChainFramebuffers
  /\ m_prepend = w.m_prepend /\ shaderModules = w.shaderModules
  /\ pipelines = w.pipelines /\ closed = w.closed
  /\ inFlight = w.inFlight /\ idle = w.idle /\ retired = w.retired
  /\ trace = w.trace /\ faults = w.faults /\ lastCall = w.lastCall
  /\ cmdBuffer = w.cmdBuffer /\ device = w.device
  /\ terminated = w.terminated
  /\ backBufferCmds = w.backBufferCmds /\ layouts = w.layouts
  /\ uniformData = w.uniformData
  /\ events = 0

\* The shader files as they are installed: all found, none modified.
InstalledShaders == NewCompiler(FileNames, [f \in FileNames |-> 0])

\* The state after Sample::init.
Init ==
  /\ StartsAs(SampleInit(Constructed))
  /\ shaderCompiler = InstalledShaders

\* The sizes the window is resized to: minimized, in both dimensions or in
\* the width only, the initial size, and a size that differs from it in the width only or in the height only.
WindowSizes ==
  {<<0, 0>>, <<0, SurfaceHeight>>, <<SurfaceWidth, SurfaceHeight>>,
   <<SurfaceWidth + 1, SurfaceHeight>>, <<SurfaceWidth, SurfaceHeight + 1>>}

\* The user's entry of one frame: nothing, or a value for one widget.
UIInputs ==
  {<<>>} \cup UNION {{Widgets[k] :> v : v \in WidgetChoices(Widgets[k])} :
                       k \in DOMAIN Widgets}

\* The user can only edit a widget that onUIRender draws.
RECURSIVE UIFeasibleFrom(_, _, _)
UIFeasibleFrom(st, k, ui) ==
  IF k > Len(Widgets) THEN TRUE
  ELSE /\ (Widgets[k] \in DOMAIN ui => WidgetVisible(st, Widgets[k]))
       /\ UIFeasibleFrom(ApplyWidget(st, Widgets[k], ui), k + 1, ui)

\* The swapchain images a frame may acquire.  The slots differ in nothing
\* but being in flight or not, so one representative of each kind is tried:
\* the lowest slot that is in flight and the lowest that is not.
AcquirableSlots ==
  LET busy == inFlight
      free == (1 .. NumSwapImages) \ inFlight
      lowest(S) == {i \in S : \A j \in S : i <= j}
  IN  lowest(busy) \cup lowest(free)

\* The swapchain images renumbered so that those in flight come first: the
\* same state up to the names of the images.
Renumbered(w) == [w EXCEPT !.inFlight = 1 .. Cardinality(@)]

\* A frame: display() for some acquired image and some user entry.  An
\* entry that leaves the requested state as it is (the selected combo item
\* picked again) is the frame without entry.
Display ==
  /\ ~closed
  /\ \E slot \in AcquirableSlots, ui \in UIInputs :
       /\ ui # <<>> => events < MaxEvents
       /\ UIFeasibleFrom(m_state, 1, ui)
       /\ ui # <<>> => DoGUI(m_state, ui) # DoGUI(m_state, <<>>)
       /\ "algorithm" \in DOMAIN ui => AlgorithmOffered(device, ui["algorithm"])
       /\ Becomes(Renumbered(display(World, slot, ui)))
       /\ events' = events + Cardinality(DOMAIN ui)

\* The window is resized, minimized or restored.
OnWindowResize ==
  /\ ~closed /\ events < MaxEvents
  /\ \E size \in WindowSizes :
       Becomes(onWindowResize([World EXCEPT !.windowSize = size], size[1], size[2]))
  /\ events' = events + 1

\* The user presses V.
OnKeyboard ==
  /\ ~closed /\ events < MaxEvents
  /\ Becomes(onKeyboard(World))
  /\ events' = events + 1

\* The user picks "reload shaders" in the menu.
ReloadShaders ==
  /\ ~closed /\ events < MaxEvents
  /\ Becomes(reloadShaders(World))
  /\ events' = events + 1

\* The application ends.
Close ==
  /\ ~closed
  /\ Becomes(close(World))
  /\ UNCHANGED events

Next == Display \/ OnWindowResize \/ OnKeyboard \/ ReloadShaders \/ Close

Spec == Init /\ [][Next]_vars

\* The state after Sample::init on some device.  Init is the case of the
\* device that supports everything.
InitOnAnyDevice ==
  /\ \E dev \in Devices : StartsAs(SampleInit([Constructed EXCEPT !.device = dev]))
  /\ shaderCompiler = InstalledShaders

\* The sample on any device, the user working the settings window.
SpecAnyDevice == InitOnAnyDevice /\ [][Display]_vars

\* A frame in which the first creation call of some rebuild step may fail.
\* Every event can end in five ways, so one user event fewer than in Spec
\* is explored.
DisplayOrFail ==
  /\ ~closed /\ ~terminated
  /\ \E slot \in AcquirableSlots, ui \in UIInputs, step \in FailingSteps \cup {"none"} :
       /\ ui # <<>> => events + 1 < MaxEvents
       /\ UIFeasibleFrom(m_state, 1, ui)
       /\ ui # <<>> => DoGUI(m_state, ui) # DoGUI(m_state, <<>>)
       /\ Becomes(Renumbered(display([World EXCEPT !.failing = step], slot, ui)))
       /\ events' = events + Cardinality(DOMAIN ui)

\* A resize in which the first creation call of some rebuild step may fail.
OnWindowResizeOrFail ==
  /\ ~closed /\ ~terminated /\ events + 1 < MaxEvents
  /\ \E size \in WindowSizes, step \in FailingSteps \cup {"none"} :
       Becomes(onWindowResize([World EXCEPT !.windowSize = size, !.failing = step],
                              size[1], size[2]))
  /\ events' = events + 1

NextOrFail == DisplayOrFail \/ OnWindowResizeOrFail

\* The sample on a device whose creation calls may return an error.
SpecFailing == Init /\ [][NextOrFail]_vars

\* The state after Sample::init and one frame in which the user has picked
\* the 32-bit loop algorithm in the settings window.
InitLoop ==
  /\ StartsAs(Renumbered(display(SampleInit(Constructed), 1, "algorithm" :> OIT_LOOP)))
  /\ shaderCompiler = InstalledShaders

\* The sample from its first frame of the loop algorithm on.
SpecLoop == InitLoop /\ [][Next]_vars

(* ---- the A-buffer sizes of createFrameImages in machine integers ---- *)

\* Unsigned machine integers as sequences of 16-bit limbs, lowest first: two
\* limbs for uint32_t, four for VkDeviceSize (uint64_t).
LimbBase == Pow2(16)
UInt32(v) == <<v % LimbBase, v \div LimbBase>>
UInt64(v) == UInt32(v) \o <<0, 0>>

\* x * b + carry in the width of x (modulo 2^32 or 2^64), for b below 2^15.
RECURSIVE MulLimbs(_, _, _)
MulLimbs(x, b, carry) ==
  IF x = <<>> THEN <<>>
  ELSE <<(Head(x) * b + carry) % LimbBase>>
       \o MulLimbs(Tail(x), b, (Head(x) * b + carry) \div LimbBase)

\* The largest value ImGui's InputInt stores in the int it edits.
INT_MAX == 2147483647

\* The uint32_t createFrameImages stores in the scene UBO for
\* OIT_LINKEDLIST: linkedListAllocatedPerElement * bufferWidth *
\* bufferHeight, times msaa with sample shading, each product in 32 bits.
linkedListAllocated32(st, bufferWidth, bufferHeight) ==
  LET perFrame == MulLimbs(MulLimbs(UInt32(st.linkedListAllocatedPerElement),
                                    bufferWidth, 0),
                           bufferHeight, 0)
  IN  IF st.sampleShading THEN MulLimbs(perFrame, st.msaa, 0) ELSE perFrame

\* The VkDeviceSize aBufferSize of createFrameImages for OIT_LINKEDLIST:
\* bufferWidth * bufferHeight * aBufferElementsPerSample * 16, every factor
\* widened to 64 bits before the product.
aBufferSize64(st, bufferWidth, bufferHeight) ==
  LET elementsPerSample ==
        IF st.sampleShading
        THEN MulLimbs(UInt64(st.linkedListAllocatedPerElement), st.msaa, 0)
        ELSE UInt64(st.linkedListAllocatedPerElement)
  IN  MulLimbs(MulLimbs(MulLimbs(elementsPerSample, bufferWidth, 0), bufferHeight, 0),
               16, 0)

\* Allocation factors the "List: Allocated per pixel" input accepts (any
\* int from 1 up) and swapchain sizes, small and as large as a 4K display.
AllocationFactors == {1, DefaultState.linkedListAllocatedPerElement, Pow2(10), Pow2(12), INT_MAX}
Resolutions ==
  {<<SurfaceWidth, SurfaceHeight>>, <<Pow2(10), Pow2(9)>>,
   <<15 * Pow2(7), 135 * Pow2(3)>>, <<15 * Pow2(8), 135 * Pow2(4)>>}

\* The Sample object with the linked-list algorithm requested, some
\* allocation factor and antialiasing mode, and a swapchain of some size.
InitSizing ==
  /\ \E factor \in AllocationFactors, aa \in 0 .. NUM_AATYPES - 1, size \in Resolutions :
       StartsAs([Constructed EXCEPT
                   !.m_state = recomputeAntialiasingSettings(
                                 [DefaultState EXCEPT
                                    !.algorithm = OIT_LINKEDLIST,
                                    !.linkedListAllocatedPerElement = factor,
                                    !.aaType = aa]),
                   !.swapSize = size])
  /\ shaderCompiler = InstalledShaders

\* The sizes createFrameImages computes: the scene UBO's value as a uint32_t
\* and the A-buffer's size in bytes as a uint64_t, both in limbs.
SizeABuffer ==
  /\ ~m_oitABuffer.live
  /\ Becomes([World EXCEPT
                !.m_sceneUbo.linkedListAllocatedPerElement =
                  linkedListAllocated32(m_state, swapSize[1] * m_state.supersample,
                                        swapSize[2] * m_state.supersample),
                !.m_oitABuffer =
                  [NullBuffer EXCEPT
                     !.live = TRUE,
                     !.size = aBufferSize64(m_state, swapSize[1] * m_state.supersample,
                                            swapSize[2] * m_state.supersample)]])
  /\ UNCHANGED <<events, shaderCompiler>>

\* createFrameImages as a function of the requested state and the
\* swapchain size.
SpecSizing == InitSizing /\ [][SizeABuffer]_vars

\* The members of the Sample object: every variable but shaderCompiler.
sampleVars ==
  <<m_state, m_lastState, m_vsync, m_lastVsync, windowSize, swapSize,
    m_lastSwapChainSize, m_uniformBuffers, scene, images, m_oitABuffer, m_sceneUbo,
    m_descriptorInfo, m_renderPassColorDepthClear, m_renderPassWeighted,
    m_mainColorDepthFramebuffer, m_weightedFramebuffer, m_guiSwapChainFramebuffers,
    m_prepend, shaderModules, pipelines, closed, inFlight, idle, retired, trace,
    faults, lastCall, cmdBuffer, backBufferCmds, layouts, uniformData, device,
    terminated, events>>

\* A CachingShaderCompiler just constructed, the shader files as they are
\* installed; the Sample object is not used.
InitCompiler ==
  /\ StartsAs(Constructed)
  /\ shaderCompiler = InstalledShaders

\* compile is called with some input; the compilation succeeds or fails.
Compile ==
  /\ shaderCompiler.calls < MaxCompiles
  /\ \E input \in CompileInputs, spirv \in BOOLEAN :
       shaderCompiler' = compile(shaderCompiler, input, spirv)
  /\ UNCHANGED sampleVars

\* A shader file is written or restored outside the program: it is found,
\* with some modification time.
WriteFile ==
  /\ \E f \in FileNames, t \in 0 .. MaxModifiedTime :
       shaderCompiler' =
         [shaderCompiler EXCEPT
            !.found = @ \cup {f},
            !.last_write_time[f] = t,
            !.returned = NotCalled]
  /\ UNCHANGED sampleVars

\* A shader file is removed outside the program: it is not found any more.
RemoveFile ==
  /\ \E f \in shaderCompiler.found :
       shaderCompiler' =
         [shaderCompiler EXCEPT
            !.found = @ \ {f},
            !.last_write_time[f] = 0,
            !.returned = NotCalled]
  /\ UNCHANGED sampleVars

\* clear (or deinit) is called.
Clear ==
  /\ shaderCompiler' = clear(shaderCompiler)
  /\ UNCHANGED sampleVars

NextCompiler == Compile \/ WriteFile \/ RemoveFile \/ Clear

\* A CachingShaderCompiler used on its own.
SpecCompiler == InitCompiler /\ [][NextCompiler]_vars

(***************************************************************************)
(* Properties.  The events of the handler that ran last are in trace; the  *)
(* events of its call of updateRendererFromState lie between the begin and *)
(* end markers.                                                            *)
(***************************************************************************)

\* The categories of GPU objects, in the order the renderer builds them.
CategoryNames ==
  <<"uniformBuffers", "scene", "frameImages", "descriptorSets", "renderPasses",
    "framebuffers", "shaderModules", "pipelines">>

CreateEvents == {"create:" \o CategoryNames[k] : k \in DOMAIN CategoryNames}

DestroyEvents == {"destroy:" \o CategoryNames[k] : k \in DOMAIN CategoryNames}

\* The handler that ran last called updateRendererFromState and the call
\* returned.
CallReturned ==
  \E i \in DOMAIN trace : trace[i] = "end:updateRendererFromState"

\* Event i of the trace happened inside the call.
InCall(i) ==
  \E b \in 1 .. (i - 1), e \in (i + 1) .. Len(trace) :
    /\ trace[b] = "begin:updateRendererFromState"
    /\ trace[e] = "end:updateRendererFromState"

\* C1: no GPU object is destroyed while a submitted frame may still be
\* executing.  Every destruction in resizeCommands, updateRendererFromState,
\* the shader reload and close happens on an idle device with no frame in
\* flight, and is preceded in its handler by a vkDeviceWaitIdle with no
\* queue submission of a frame between the wait and the destruction.  (The
\* scoped command buffer of initScene is submitted and waited for in one
\* step, so it leaves nothing executing.)
C1_DestroyedOnlyWhenIdle ==
  /\ faults \cap {"destroyedInFlight", "destroyedWithoutIdle"} = {}
  /\ \A i \in DOMAIN trace :
       trace[i] \in DestroyEvents =>
         \E j \in 1 .. (i - 1) :
           /\ trace[j] = "vkDeviceWaitIdle"
           /\ \A k \in (j + 1) .. (i - 1) : trace[k] # "vkQueueSubmit"

\* A frame in which the user changed the configuration while earlier frames
\* were still in flight: the wait retired them and pipelines were destroyed.
C1_Witness ==
  /\ retired
  /\ Len(trace) > 0 /\ trace[1] = "waitFence"
  /\ \E i \in DOMAIN trace : trace[i] = "destroy:pipelines"

\* C2: after each call of updateRendererFromState that is not forced, what
\* the GPU holds (frame images with their sizes, sample and layer counts,
\* the A-buffer, the auxiliary images, the descriptor-set layout, render
\* passes, framebuffers, shader defines and modules, pipelines, scene) is
\* what a forced full rebuild from the same requested state and swapchain
\* size would have produced.
C2_MatchesForcedRebuild ==
  (lastCall.called /\ ~lastCall.force) => lastCall.divergence = {}

\* A call that rebuilt the frame images but not the scene: a partial
\* rebuild.
C2_Witness ==
  /\ CallReturned
  /\ lastCall.called /\ ~lastCall.force
  /\ lastCall.flags.imagesNeedReinit /\ ~lastCall.flags.sceneNeedsReinit
  /\ lastCall.divergence = {}

\* C3: a call of updateRendererFromState that is not forced and directly
\* follows a call with the same requested state, swapchain size and vsync
\* computes every predicate false and creates, destroys and writes nothing.
C3_RepeatedCallIsIdempotent ==
  (lastCall.repeat /\ CallReturned) =>
    /\ \A f \in DOMAIN lastCall.flags : ~lastCall.flags[f]
    /\ \A i \in DOMAIN trace :
         InCall(i) =>
           trace[i] \notin CreateEvents \cup DestroyEvents \cup {"write:descriptorSets"}

\* Such a second call, after the user changed the configuration.
C3_Witness ==
  /\ lastCall.repeat /\ CallReturned
  /\ events > 0
  /\ m_lastState # DefaultState

\* No handle of the renderer refers to a live GPU object.
NothingLive ==
  /\ \A i \in DOMAIN m_uniformBuffers : ~m_uniformBuffers[i]
  /\ ~scene.live
  /\ DOMAIN images = {}
  /\ ~m_oitABuffer.live
  /\ ~m_descriptorInfo.live
  /\ ~m_renderPassColorDepthClear.live /\ ~m_renderPassWeighted.live
  /\ ~m_mainColorDepthFramebuffer.live /\ ~m_weightedFramebuffer.live
  /\ m_guiSwapChainFramebuffers # "live"
  /\ DOMAIN shaderModules = {}
  /\ DOMAIN pipelines = {}

\* C4: across any sequence of configuration changes followed by close(),
\* every GPU object that was created is destroyed exactly once: an object
\* is never created into a handle that still holds a live one (the asserts
\* of BufferAndView::init and ImageAndView::init never fail), none is
\* destroyed twice, and after close() nothing is left live.
C4_CreatedOnceDestroyedOnce ==
  /\ faults \cap {"createdOverLive", "assertInitOnLive", "destroyedTwice"} = {}
  /\ closed => NothingLive

\* The renderer closed after the user changed the algorithm and something
\* else.
C4_Witness ==
  /\ closed
  /\ events = MaxEvents
  /\ m_lastState.algorithm # DefaultState.algorithm
  /\ \E i \in DOMAIN trace : trace[i] = "destroy:frameImages"

\* The position of a create or descriptor-write event in the build order.
BuildRank(e) ==
  IF e = "write:descriptorSets" THEN 6
  ELSE CHOOSE k \in DOMAIN CategoryNames : e = "create:" \o CategoryNames[k]

\* C5: within a handler the categories that are rebuilt are built in the
\* order uniform buffers, scene, frame images, descriptor sets, render
\* passes, framebuffers together with the descriptor writes, shader
\* modules, pipelines.
C5_BuildOrder ==
  \A i, j \in DOMAIN trace :
    (/\ i < j
     /\ trace[i] \in CreateEvents \cup {"write:descriptorSets"}
     /\ trace[j] \in CreateEvents \cup {"write:descriptorSets"})
      => BuildRank(trace[i]) <= BuildRank(trace[j])

\* A frame in which a change of the antialiasing mode rebuilt the frame
\* images, the render passes, the framebuffers, the shader modules and the
\* pipelines.
C5_Witness ==
  /\ events > 0
  /\ Len(trace) > 0 /\ trace[1] = "waitFence"
  /\ \A c \in {"frameImages", "renderPasses", "framebuffers", "shaderModules",
               "pipelines"} :
       \E i \in DOMAIN trace : trace[i] = "create:" \o c
  /\ \E i \in DOMAIN trace : trace[i] = "write:descriptorSets"

\* A binding of the descriptor sets that has an object to refer to: the
\* scene UBO, the A-buffer, an image that exists.
BindingInUse(b) ==
  CASE b = "UBO_SCENE" -> TRUE
    [] b = "IMG_ABUFFER" -> m_oitABuffer.live
    [] OTHER -> BindingImage(b) \in DOMAIN images

\* C6: after every pass of updateRendererFromState no live object refers to
\* a destroyed one: every binding in use of the live descriptor sets holds
\* a live object, the live framebuffers were made from the current images
\* and render passes, and the live pipelines from the current pipeline
\* layout and render passes.
C6_NoReferenceToDestroyed ==
  (CallReturned /\ ~closed) =>
    /\ m_descriptorInfo.live =>
         \A b \in Bindings : BindingInUse(b) => m_descriptorInfo.writes[b] = "valid"
    /\ \A fb \in {m_mainColorDepthFramebuffer, m_weightedFramebuffer} :
         fb.live => ~fb.imagesStale /\ ~fb.renderPassStale
    /\ m_guiSwapChainFramebuffers # "dangling"
    /\ \A p \in DOMAIN pipelines :
         ~pipelines[p].layoutStale /\ ~pipelines[p].renderPassStale

\* C7: after every pass the auxiliary resources are those of the applied
\* algorithm: the A-buffer and the auxiliary image unless it is
\* OIT_WEIGHTED, the counter image for OIT_LINKEDLIST only, the spinlock
\* image for OIT_SPINLOCK only, the furthest-depth image for OIT_SPINLOCK
\* and OIT_INTERLOCK only, the two weighted targets for OIT_WEIGHTED only.
C7_AuxiliaryResourcesMatchAlgorithm ==
  ~closed =>
    LET a == m_lastState.algorithm
        has(name) == name \in DOMAIN images
    IN  /\ m_oitABuffer.live <=> a # OIT_WEIGHTED
        /\ has("m_oitAuxImage") <=> a # OIT_WEIGHTED
        /\ has("m_oitCounterImage") <=> a = OIT_LINKEDLIST
        /\ has("m_oitAuxSpinImage") <=> a = OIT_SPINLOCK
        /\ has("m_oitAuxDepthImage") <=> a \in {OIT_SPINLOCK, OIT_INTERLOCK}
        /\ has("m_oitWeightedColorImage") <=> a = OIT_WEIGHTED
        /\ has("m_oitWeightedRevealImage") <=> a = OIT_WEIGHTED

\* The user switched from the spinlock algorithm to the weighted one: the
\* weighted targets exist and the spinlock resources are gone.
C7_Witness ==
  /\ CallReturned /\ events > 0
  /\ m_lastState.algorithm = OIT_WEIGHTED
  /\ {"m_oitWeightedColorImage", "m_oitWeightedRevealImage"} \subseteq DOMAIN images
  /\ "m_oitAuxSpinImage" \notin DOMAIN images

\* C8: when updateRendererFromState returns, the applied state equals the
\* requested state field for field, the derived msaa, sampleShading and
\* supersample included, and the remembered swapchain size and vsync are
\* the current ones; the applied state is written once, after every create,
\* destroy and descriptor write of the call.
C8_AppliedEqualsRequested ==
  CallReturned =>
    /\ \A f \in StateFields : m_lastState[f] = m_state[f]
    /\ m_state = recomputeAntialiasingSettings(m_state)
    /\ m_lastSwapChainSize = swapSize
    /\ m_lastVsync = m_vsync
    /\ \A i \in DOMAIN trace :
         (trace[i] = "applyState" /\ InCall(i)) =>
           \A j \in DOMAIN trace :
             InCall(j) =>
               \/ i = j
               \/ /\ j < i
                  /\ trace[j] \in CreateEvents \cup DestroyEvents
                                   \cup {"write:descriptorSets", "vkDeviceWaitIdle",
                                         "submitAndWait"}

\* A call that rebuilt something after the user picked an antialiasing mode
\* with other derived fields than the default's.
C8_Witness ==
  /\ CallReturned /\ events > 0
  /\ lastCall.flags.anythingChanged
  /\ m_lastState.aaType # AA_NONE /\ m_lastState.msaa > 1
  /\ \E i \in DOMAIN trace : trace[i] = "applyState"

\* C9: in a call that is not forced, shadersNeedUpdate is true exactly when
\* the algorithm, oitLayers, tailBlend, the interlock-ordering flag, msaa
\* or sampleShading differs between the requested and the applied state.
C9_ShadersNeedUpdateIffListedFieldDiffers ==
  (lastCall.called /\ ~lastCall.force) =>
    (lastCall.flags.shadersNeedUpdate
       <=> lastCall.changed \cap {"algorithm", "oitLayers", "tailBlend",
                                  "interlockIsOrdered", "msaa", "sampleShading"} # {})

\* C10: imagesNeedReinit is true exactly when supersample, msaa, the
\* algorithm, sampleShading or oitLayers differs, or the requested algorithm
\* is OIT_LINKEDLIST and linkedListAllocatedPerElement differs, or the
\* swapchain size changed, or the call is forced.
C10_ImagesNeedReinitIff ==
  lastCall.called =>
    (lastCall.flags.imagesNeedReinit
       <=> \/ lastCall.changed \cap {"supersample", "msaa", "algorithm",
                                      "sampleShading", "oitLayers"} # {}
           \/ /\ lastCall.post.m_state.algorithm = OIT_LINKEDLIST
              /\ "linkedListAllocatedPerElement" \in lastCall.changed
           \/ "swapchainSize" \in lastCall.changed
           \/ lastCall.force)

\* A call in which only the linked-list allocation differs while the
\* requested algorithm is OIT_LINKEDLIST.
C10_Witness ==
  /\ lastCall.called /\ ~lastCall.force
  /\ lastCall.changed = {"linkedListAllocatedPerElement"}
  /\ lastCall.post.m_state.algorithm = OIT_LINKEDLIST
  /\ lastCall.flags.imagesNeedReinit

\* The pipeline handles createGraphicsPipelines fills for an algorithm: the
\* opaque pipeline, which every algorithm's frame draws with, and the
\* algorithm's own pipelines.
PipelinesOfAlgorithm(algorithm) ==
  {"m_pipelineOpaque"} \cup {b[1] : b \in AlgorithmPipelines(algorithm)}

\* The number of events named e inside the call of updateRendererFromState.
CountInCall(e) ==
  Cardinality({i \in DOMAIN trace : trace[i] = e /\ InCall(i)})

\* C11: pipelinesNeedReinit is true exactly when the algorithm differs or
\* shadersNeedUpdate or imagesNeedReinit is true; in a call where it is true
\* all pipelines that existed are destroyed, before the one creation, and
\* the pipelines that exist afterwards are exactly those of the requested
\* algorithm (with the opaque pipeline every algorithm's frame uses).
C11_PipelinesNeedReinitIff ==
  lastCall.called =>
    /\ lastCall.flags.pipelinesNeedReinit
         <=> \/ "algorithm" \in lastCall.changed
             \/ lastCall.flags.shadersNeedUpdate
             \/ lastCall.flags.imagesNeedReinit
    /\ CallReturned =>
         /\ lastCall.flags.pipelinesNeedReinit
              <=> CountInCall("create:pipelines") = 1
         /\ lastCall.flags.pipelinesNeedReinit =>
              /\ CountInCall("destroy:pipelines") <= 1
              /\ \A i, j \in DOMAIN trace :
                   (trace[i] = "destroy:pipelines" /\ trace[j] = "create:pipelines")
                     => i < j
              /\ DOMAIN pipelines = PipelinesOfAlgorithm(lastCall.post.m_state.algorithm)
              /\ \A p \in DOMAIN pipelines : pipelines[p].live

\* A call that is not forced in which the algorithm changed from one whose
\* pipelines were live to OIT_LOOP, whose three pipelines replaced them.
C11_Witness ==
  /\ CallReturned /\ lastCall.called /\ ~lastCall.force
  /\ "algorithm" \in lastCall.changed
  /\ lastCall.flags.pipelinesNeedReinit
  /\ lastCall.post.m_state.algorithm = OIT_LOOP
  /\ DOMAIN pipelines = {"m_pipelineOpaque", "m_pipelineLoopDepth",
                         "m_pipelineLoopColor", "m_pipelineLoopComposite"}

\* C12: in a call that is not forced, descriptorSetsNeedReinit is true
\* exactly when one of the requested algorithm and the algorithm applied
\* before the call is OIT_LOOP64 and the other is not.
C12_DescriptorSetsNeedReinitIff ==
  [][(CallReturned' /\ ~lastCall'.force) =>
       (lastCall'.flags.descriptorSetsNeedReinit
          <=> (m_state'.algorithm = OIT_LOOP64) # (m_lastState.algorithm = OIT_LOOP64))]_vars

\* A call that is not forced in which the algorithm changed to OIT_LOOP64
\* and the descriptor sets were rebuilt with the storage-buffer layout.
C12_Witness ==
  /\ CallReturned /\ lastCall.called /\ ~lastCall.force
  /\ "algorithm" \in lastCall.changed
  /\ lastCall.post.m_state.algorithm = OIT_LOOP64
  /\ lastCall.flags.descriptorSetsNeedReinit
  /\ \E i \in DOMAIN trace : trace[i] = "create:descriptorSets" /\ InCall(i)

\* C13: in a call that is not forced, sceneNeedsReinit is true exactly when
\* numObjects, scaleMin, scaleWidth or subdiv differs between the requested
\* and the applied state, and the scene's vertex and index buffers are
\* regenerated (once, from the requested values) exactly when it is true.
C13_SceneNeedsReinitIff ==
  (lastCall.called /\ ~lastCall.force) =>
    /\ lastCall.flags.sceneNeedsReinit
         <=> lastCall.changed \cap {"numObjects", "scaleMin", "scaleWidth", "subdiv"} # {}
    /\ CallReturned =>
         /\ CountInCall("create:scene") = (IF lastCall.flags.sceneNeedsReinit THEN 1 ELSE 0)
         /\ CountInCall("destroy:scene") = CountInCall("create:scene")
         /\ scene.live
         /\ scene.numObjects = lastCall.post.m_state.numObjects
         /\ scene.subdiv = lastCall.post.m_state.subdiv
         /\ scene.scaleMin = lastCall.post.m_state.scaleMin
         /\ scene.scaleWidth = lastCall.post.m_state.scaleWidth

\* A call that is not forced in which only the subdivision count differed
\* and the scene was regenerated.
C13_Witness ==
  /\ CallReturned /\ lastCall.called /\ ~lastCall.force
  /\ lastCall.changed = {"subdiv"}
  /\ lastCall.flags.sceneNeedsReinit
  /\ CountInCall("create:scene") = 1

\* C14: the per-slot uniform buffers are destroyed and recreated only when
\* the number of frame slots changed or the rebuild is forced.  The number
\* of slots is NumSwapImages throughout, so a handler whose call of
\* updateRendererFromState is not forced (a frame, a resize, a vsync toggle)
\* destroys and creates no uniform buffer.
C14_UniformBuffersUntouchedUnlessForced ==
  (CallReturned /\ ~lastCall.force) =>
    \A i \in DOMAIN trace :
      trace[i] \notin {"destroy:uniformBuffers", "create:uniformBuffers"}

\* The call that ran last was not forced, started from the applied
\* algorithm OIT_SPINLOCK with 8 layers, and its request differed from the
\* applied state only in the algorithm, which it set to OIT_WEIGHTED.
SwitchedSpinlockToWeighted ==
  /\ CallReturned /\ lastCall.called /\ ~lastCall.force
  /\ lastCall.applied.algorithm = OIT_SPINLOCK
  /\ lastCall.applied.oitLayers = 8
  /\ lastCall.changed = {"algorithm"}
  /\ lastCall.post.m_state.algorithm = OIT_WEIGHTED

\* C15: switching from the spinlock algorithm with 8 layers to the weighted
\* algorithm, all else unchanged, makes imagesNeedReinit, pipelinesNeedReinit
\* and shadersNeedUpdate true and sceneNeedsReinit false; afterwards the
\* spinlock image, the furthest-depth image, the auxiliary image and the
\* A-buffer no longer exist and the weighted color and reveal targets exist.
C15_SpinlockToWeighted ==
  SwitchedSpinlockToWeighted =>
    /\ lastCall.flags.imagesNeedReinit
    /\ lastCall.flags.pipelinesNeedReinit
    /\ lastCall.flags.shadersNeedUpdate
    /\ ~lastCall.flags.sceneNeedsReinit
    /\ DOMAIN images \cap {"m_oitAuxSpinImage", "m_oitAuxDepthImage", "m_oitAuxImage"} = {}
    /\ ~m_oitABuffer.live
    /\ {"m_oitWeightedColorImage", "m_oitWeightedRevealImage"} \subseteq DOMAIN images
    /\ images["m_oitWeightedColorImage"].live
    /\ images["m_oitWeightedRevealImage"].live
    /\ \E i \in DOMAIN trace : trace[i] = "destroy:frameImages" /\ InCall(i)

\* The switch happened, in a frame whose call destroyed the frame images.
C15_Witness ==
  /\ SwitchedSpinlockToWeighted
  /\ m_lastState.algorithm = OIT_WEIGHTED
  /\ CountInCall("create:frameImages") = 1

\* The call that ran last was not forced and its request differed from the
\* applied configuration only in scaleMin (swapchain size and vsync as
\* remembered).
OnlyScaleMinDiffered ==
  /\ CallReturned /\ lastCall.called /\ ~lastCall.force
  /\ lastCall.changed = {"scaleMin"}

\* C16: a call that is not forced in which only scaleMin differs regenerates
\* the scene geometry and creates and destroys no frame image, descriptor
\* set, render pass, framebuffer, shader module or pipeline, and writes no
\* descriptor.
C16_OnlyGeometryRegenerated ==
  OnlyScaleMinDiffered =>
    /\ CountInCall("destroy:scene") = 1
    /\ CountInCall("create:scene") = 1
    /\ scene.live /\ scene.scaleMin = lastCall.post.m_state.scaleMin
    /\ \A i \in DOMAIN trace :
         InCall(i) =>
           trace[i] \notin
             {"destroy:frameImages", "create:frameImages",
              "destroy:descriptorSets", "create:descriptorSets",
              "destroy:renderPasses", "create:renderPasses",
              "destroy:framebuffers", "create:framebuffers",
              "destroy:shaderModules", "create:shaderModules",
              "destroy:pipelines", "create:pipelines",
              "write:descriptorSets"}

\* A frame in which the user moved the scaleMin slider and nothing else:
\* the scene was generated from the new value.
C16_Witness ==
  /\ OnlyScaleMinDiffered
  /\ lastCall.applied.scaleMin # lastCall.post.m_state.scaleMin
  /\ scene.scaleMin = m_state.scaleMin
  /\ CountInCall("create:scene") = 1

\* The derived antialiasing values <<msaa, sampleShading, supersample>> of
\* a State.
DerivedAA(st) == <<st.msaa, st.sampleShading, st.supersample>>

\* The values each antialiasing mode is stated to give.
StatedAA(aaType) ==
  CASE aaType = AA_NONE     -> <<1, FALSE, 1>>
    [] aaType = AA_MSAA_4X  -> <<4, FALSE, 1>>
    [] aaType = AA_SSAA_4X  -> <<4, TRUE, 1>>
    [] aaType = AA_SUPER_4X -> <<1, FALSE, 2>>
    [] aaType = AA_MSAA_8X  -> <<8, FALSE, 1>>
    [] aaType = AA_SSAA_8X  -> <<8, TRUE, 1>>

\* C17: recomputeAntialiasingSettings is total over the six antialiasing
\* modes and its result depends on aaType alone: from the current requested
\* state with any mode and any previous derived values it gives the stated
\* <<msaa, sampleShading, supersample>>, changes no other field, and applied
\* a second time changes nothing; the state every call applies holds the
\* stated values of its mode.
C17_AntialiasingFromModeAlone ==
  /\ \A aaType \in 0 .. (NUM_AATYPES - 1), msaa \in {1, 4, 8},
        sampleShading \in BOOLEAN, supersample \in {1, 2} :
       LET st == [m_state EXCEPT !.aaType = aaType, !.msaa = msaa,
                                 !.sampleShading = sampleShading,
                                 !.supersample = supersample]
           re == recomputeAntialiasingSettings(st)
       IN  /\ DerivedAA(re) = StatedAA(aaType)
           /\ re = [st EXCEPT !.msaa = re.msaa, !.sampleShading = re.sampleShading,
                              !.supersample = re.supersample]
           /\ recomputeAntialiasingSettings(re) = re
  /\ lastCall.called =>
       /\ DerivedAA(lastCall.post.m_state) = StatedAA(lastCall.post.m_state.aaType)
       /\ DerivedAA(lastCall.post.m_lastState) = StatedAA(lastCall.post.m_state.aaType)

\* A call whose request went from 8x sample-shaded antialiasing to 4x
\* supersampling: every derived value changed.
C17_Witness ==
  /\ CallReturned /\ lastCall.called
  /\ lastCall.applied.aaType = AA_SSAA_8X
  /\ DerivedAA(lastCall.applied) = <<8, TRUE, 1>>
  /\ m_state.aaType = AA_SUPER_4X
  /\ DerivedAA(m_lastState) = <<1, FALSE, 2>>

\* The indexed draws of the recorded frame: the positions in cmdBuffer.
IndexedDraws == {i \in DOMAIN cmdBuffer : cmdBuffer[i].cmd = "vkCmdDrawIndexed"}

OpaqueDraws == {i \in IndexedDraws : cmdBuffer[i].target = "m_pipelineOpaque"}

TransparentDraws == IndexedDraws \ OpaqueDraws

\* The number of indices of one object of the live scene.
IndicesPerObject == m_objectTriangleIndices([scene |-> scene])

\* t is min(numObjects, floor(numObjects * percentTransparent / 100)).
IsStatedNumTransparent(t, numObjects, percentTransparent) ==
  LET product == numObjects * percentTransparent
  IN  \/ t <= numObjects /\ 100 * t <= product /\ product < 100 * t + 100
      \/ t = numObjects /\ product >= 100 * numObjects + 100

\* Object counts and percentages the partition is computed for.
ObjectCounts == {1, 3, 7, 100, 1024, 1152, 4096}

Percentages == {0, 1, 29, 30, 31, 50, 99, 100}

\* The opaque draw `opaque` and the transparent draws of the recorded frame
\* split the numObjects objects of the scene at object t, and t is the
\* stated number of transparent objects.
ObjectsPartitioned(opaque, t, numObjects, percentTransparent) ==
  /\ IsStatedNumTransparent(t, numObjects, percentTransparent)
  /\ (numObjects = 1024 /\ percentTransparent = 30) => (t = 307 /\ numObjects - t = 717)
  /\ opaque.first = t * IndicesPerObject
  /\ opaque.count = (numObjects - t) * IndicesPerObject
  /\ opaque.first + opaque.count = scene.numObjects * IndicesPerObject
  /\ \A i \in TransparentDraws :
       /\ cmdBuffer[i].first = 0
       /\ cmdBuffer[i].count = t * IndicesPerObject

\* C18: numTransparent is min(numObjects, floor(numObjects *
\* percentTransparent / 100)) and numOpaque is numObjects - numTransparent;
\* the transparent passes of a frame draw the objects [0, numTransparent)
\* and the opaque pass the objects [numTransparent, numObjects), two ranges
\* that are disjoint and cover the scene; 1024 objects at 30 percent give
\* 307 transparent and 717 opaque objects.
C18_ObjectPartition ==
  /\ \A n \in ObjectCounts, p \in Percentages :
       IsStatedNumTransparent(NumTransparent(n, p), n, p)
  /\ NumTransparent(1024, 30) = 307
  /\ cmdBuffer # <<>> =>
       /\ Cardinality(OpaqueDraws) = 1
       /\ TransparentDraws # {}
       /\ \A i \in OpaqueDraws :
            ObjectsPartitioned(cmdBuffer[i], cmdBuffer[i].first \div IndicesPerObject,
                               m_state.numObjects, m_state.percentTransparent)

\* A frame recorded with 1024 objects of which 30 percent are transparent:
\* the opaque draw starts at object 307 and covers 717 objects.
C18_Witness ==
  /\ cmdBuffer # <<>>
  /\ m_state.numObjects = 1024 /\ m_state.percentTransparent = 30
  /\ \E i \in OpaqueDraws :
       /\ cmdBuffer[i].first = 307 * IndicesPerObject
       /\ cmdBuffer[i].count = 717 * IndicesPerObject
  /\ \E i \in TransparentDraws : cmdBuffer[i].count = 307 * IndicesPerObject

\* C19: no indexed draw with an index count of zero is ever recorded: the
\* opaque draw is skipped when no object is opaque, and the color and depth
\* draws are skipped when no object is transparent.
C19_NoEmptyIndexedDraw ==
  \A i \in IndexedDraws : cmdBuffer[i].count > 0

\* The algorithms that store fragments in the A-buffer: all but the
\* weighted one.
ABufferAlgorithms == (0 .. NUM_ALGORITHMS - 1) \ {OIT_WEIGHTED}

\* The passes each A-buffer algorithm is stated to run, as <<pipeline,
\* command>> in order: the color pass (for the 32-bit loop the depth pass
\* and then the color pass) and the composite.
StatedPasses(algorithm) ==
  CASE algorithm = OIT_SIMPLE ->
         <<<<"m_pipelineSimpleColor", "vkCmdDrawIndexed">>,
           <<"m_pipelineSimpleComposite", "vkCmdDraw">>>>
    [] algorithm = OIT_LINKEDLIST ->
         <<<<"m_pipelineLinkedListColor", "vkCmdDrawIndexed">>,
           <<"m_pipelineLinkedListComposite", "vkCmdDraw">>>>
    [] algorithm = OIT_LOOP ->
         <<<<"m_pipelineLoopDepth", "vkCmdDrawIndexed">>,
           <<"m_pipelineLoopColor", "vkCmdDrawIndexed">>,
           <<"m_pipelineLoopComposite", "vkCmdDraw">>>>
    [] algorithm = OIT_LOOP64 ->
         <<<<"m_pipelineLoop64Color", "vkCmdDrawIndexed">>,
           <<"m_pipelineLoop64Composite", "vkCmdDraw">>>>
    [] algorithm = OIT_INTERLOCK ->
         <<<<"m_pipelineInterlockColor", "vkCmdDrawIndexed">>,
           <<"m_pipelineInterlockComposite", "vkCmdDraw">>>>
    [] algorithm = OIT_SPINLOCK ->
         <<<<"m_pipelineSpinlockColor", "vkCmdDrawIndexed">>,
           <<"m_pipelineSpinlockComposite", "vkCmdDraw">>>>

IsClear(c) == c.cmd \in {"vkCmdClearColorImage", "vkCmdFillBuffer"}

IsDraw(c) == c.cmd \in {"vkCmdDrawIndexed", "vkCmdDraw"}

IsTransparentPass(c) == IsDraw(c) /\ c.target # "m_pipelineOpaque"

\* The draws of the recorded frame that are not the opaque draw, in order.
TransparentPasses == SelectSeq(cmdBuffer, IsTransparentPass)

\* C20: in a frame of an A-buffer algorithm the clears come first, then the
\* color pass (for OIT_LOOP the depth pass and then the color pass), then
\* the composite; each color or depth pass is one indexed draw of
\* numTransparent times the indices of one object, from index 0, and the
\* composite is one draw of 3 vertices that is not indexed.
C20_ClearColorComposite ==
  (cmdBuffer # <<>> /\ m_state.algorithm \in ABufferAlgorithms) =>
    LET stated == StatedPasses(m_state.algorithm)
        numTransparent == NumTransparent(m_state.numObjects, m_state.percentTransparent)
    IN  /\ \E i \in DOMAIN cmdBuffer : IsClear(cmdBuffer[i])
        /\ \A i, j \in DOMAIN cmdBuffer :
             (IsClear(cmdBuffer[i]) /\ IsDraw(cmdBuffer[j])) => i < j
        /\ Len(TransparentPasses) = Len(stated)
        /\ \A k \in DOMAIN TransparentPasses :
             /\ TransparentPasses[k].target = stated[k][1]
             /\ TransparentPasses[k].cmd = stated[k][2]
             /\ k < Len(stated) =>
                  /\ TransparentPasses[k].count = numTransparent * IndicesPerObject
                  /\ TransparentPasses[k].first = 0
             /\ k = Len(stated) =>
                  /\ TransparentPasses[k].count = 3
                  /\ TransparentPasses[k].first = 0
        /\ \A k \in DOMAIN TransparentPasses :
             TransparentPasses[k].target \in DOMAIN pipelines

\* A frame of the 32-bit loop algorithm with transparent objects: depth,
\* color and composite were recorded after the fills of the A-buffer.
C20_Witness ==
  /\ cmdBuffer # <<>> /\ m_state.algorithm = OIT_LOOP
  /\ NumTransparent(m_state.numObjects, m_state.percentTransparent) > 0
  /\ Len(TransparentPasses) = 3
  /\ TransparentPasses[1].target = "m_pipelineLoopDepth"
  /\ TransparentPasses[3].cmd = "vkCmdDraw"
  /\ IsClear(cmdBuffer[1])

\* The algorithms whose frame clears auxiliary storage with transfer
\* commands: all but the weighted one, whose render pass clears its targets.
ClearingAlgorithms == (0 .. NUM_ALGORITHMS - 1) \ {OIT_WEIGHTED}

\* The commands that make the writes of one pipeline stage visible to a
\* later one: the two simple barriers of utilities_vk.h.
IsTransferToFragmentBarrier(c) == c.cmd = "cmdTransferBarrierSimple"

IsFragmentToFragmentBarrier(c) == c.cmd = "cmdFragmentBarrierSimple"

\* C21: in every frame of an algorithm that clears auxiliary storage, a
\* transfer-to-fragment-shader barrier is recorded after the clears (image
\* clears and buffer fills) and before the first fragment-shader pass that
\* reads or writes the cleared A-buffer or auxiliary image.
C21_BarrierAfterClears ==
  (cmdBuffer # <<>> /\ m_state.algorithm \in ClearingAlgorithms) =>
    \E b \in DOMAIN cmdBuffer :
      /\ IsTransferToFragmentBarrier(cmdBuffer[b])
      /\ \A i \in DOMAIN cmdBuffer :
           /\ IsClear(cmdBuffer[i]) => i < b
           /\ IsTransparentPass(cmdBuffer[i]) => b < i

\* The passes of the recorded frame after the pass at position i (the
\* composite after a color pass, color and composite after a depth pass).
LaterTransparentPasses(i) ==
  {j \in DOMAIN cmdBuffer : i < j /\ IsTransparentPass(cmdBuffer[j])}

\* C22: in every frame of an A-buffer algorithm, between a pass whose
\* fragment shader writes the A-buffer or an auxiliary image and the next
\* pass that reads it (depth to color, color to composite) a
\* fragment-shader-to-fragment-shader barrier is recorded.
C22_BarrierBetweenPasses ==
  (cmdBuffer # <<>> /\ m_state.algorithm \in ABufferAlgorithms) =>
    \A i \in DOMAIN cmdBuffer :
      IsTransparentPass(cmdBuffer[i]) =>
        \A j \in LaterTransparentPasses(i) :
          \E b \in (i + 1) .. (j - 1) : IsFragmentToFragmentBarrier(cmdBuffer[b])

\* The positions of the commands named cmd on the render pass.
RenderPassCmds(cmd, renderPass) ==
  {i \in DOMAIN cmdBuffer : cmdBuffer[i].cmd = cmd /\ cmdBuffer[i].target = renderPass}

\* C23: in every frame, for every algorithm, the opaque draw is recorded
\* before any color, depth or composite draw of the transparency algorithm;
\* for the weighted algorithm the main render pass, which holds the opaque
\* draw, is ended before the weighted render pass begins.
C23_OpaqueFirst ==
  cmdBuffer # <<>> =>
    /\ Cardinality(OpaqueDraws) = 1
    /\ \A o \in OpaqueDraws, i \in DOMAIN cmdBuffer :
         IsTransparentPass(cmdBuffer[i]) => o < i
    /\ \A o \in OpaqueDraws :
         \E b \in RenderPassCmds("vkCmdBeginRenderPass", "m_renderPassColorDepthClear") :
           b < o
    /\ m_state.algorithm = OIT_WEIGHTED =>
         /\ Cardinality(RenderPassCmds("vkCmdEndRenderPass", "m_renderPassColorDepthClear")) = 1
         /\ Cardinality(RenderPassCmds("vkCmdBeginRenderPass", "m_renderPassWeighted")) = 1
         /\ \A e \in RenderPassCmds("vkCmdEndRenderPass", "m_renderPassColorDepthClear"),
               b \in RenderPassCmds("vkCmdBeginRenderPass", "m_renderPassWeighted") :
              /\ e < b
              /\ \A o \in OpaqueDraws : o < e
              /\ \A i \in DOMAIN cmdBuffer : IsTransparentPass(cmdBuffer[i]) => b < i

\* A frame of the weighted algorithm with opaque and transparent objects.
C23_Witness ==
  /\ cmdBuffer # <<>> /\ m_state.algorithm = OIT_WEIGHTED
  /\ \E o \in OpaqueDraws : cmdBuffer[o].count > 0
  /\ \E i \in TransparentDraws : cmdBuffer[i].count > 0
  /\ RenderPassCmds("vkCmdBeginRenderPass", "m_renderPassWeighted") # {}

\* The positions of event e in the trace of the last handler.
EventsAt(e) == {i \in DOMAIN trace : trace[i] = e}

\* C24: in every frame the reconcile call on the requested state comes
\* first, the slot's uniform buffer is written after the call, and the
\* passes of the algorithm are recorded after both; the uniform buffer is
\* never written before the reconcile of its frame.
C24_ReconcileThenUniformsThenRecord ==
  EventsAt("record") # {} =>
    /\ EventsAt("updateUniformBuffer") # {}
    /\ \A u \in EventsAt("updateUniformBuffer") :
         /\ \E e \in EventsAt("end:updateRendererFromState") : e < u
         /\ \A r \in EventsAt("record") : u < r

\* The last handler was a frame: display() recorded the command buffer.
FrameRecorded == EventsAt("record") # {}

\* The waits in which the CPU can block.
BlockingEvents == {"waitFence", "vkDeviceWaitIdle", "submitAndWait"}

C26_NoUnsupportedSelection ==
  /\ m_state.algorithm = OIT_LOOP64 => device.shaderBufferInt64Atomics
  /\ m_state.algorithm = OIT_INTERLOCK => device.fragmentShaderInterlockExtension
  /\ "assertExtension" \notin faults

\* The call of compile that returned last, and the entries the cache held
\* for its input before the call.
Returned == shaderCompiler.returned
CachedBefore == {e \in Returned.before : e.input = Returned.input}

\* The cache held the input with a modification time not older than the
\* file's.
CachedUpToDate == \E e \in CachedBefore : e.modified_time >= Returned.modified_time

\* C27: compile, keyed by shader kind, file name and define list, returns
\* the cached module without compiling when the file is not newer than the
\* cached modification time; it compiles anew and replaces the entry of the
\* key when the file is newer or the key is absent; and two inputs that
\* differ in kind, file or defines never share a cache entry.
C27_CompileCaches ==
  /\ \A e1, e2 \in shaderCompiler.m_cache : e1.input = e2.input => e1 = e2
  /\ \A i1, i2 \in CompileInputs :
       i1 # i2 => find(shaderCompiler.m_cache, i1) \cap find(shaderCompiler.m_cache, i2) = {}
  /\ (Returned.called /\ Returned.found) =>
       IF CachedUpToDate
       THEN /\ ~Returned.compiled
            /\ shaderCompiler.m_cache = Returned.before
            /\ \A e \in CachedBefore : Returned.module = e.module
       ELSE /\ Returned.compiled
            /\ shaderCompiler.m_cache =
                 (Returned.before \ CachedBefore)
                   \cup {[input |-> Returned.input, module |-> Returned.module,
                          modified_time |-> Returned.modified_time]}

\* compile returned a cached module while the cache also holds the same
\* file and kind under other defines.
C27_Witness ==
  /\ Returned.called /\ Returned.found /\ CachedUpToDate /\ ~Returned.compiled
  /\ Returned.module # VK_NULL_HANDLE
  /\ \E e \in shaderCompiler.m_cache :
       /\ e.input.filename = Returned.input.filename
       /\ e.input.shader_kind = Returned.input.shader_kind
       /\ e.input.defines # Returned.input.defines

\* The descriptor type of the IMG_ABUFFER binding and what a write of it
\* has to pass, for the applied algorithm.
StatedABufferType ==
  IF m_lastState.algorithm = OIT_LOOP64 THEN "STORAGE_BUFFER" ELSE "STORAGE_TEXEL_BUFFER"
StatedABufferWrite ==
  IF m_lastState.algorithm = OIT_LOOP64 THEN "pBufferInfo" ELSE "pTexelBufferView"

\* C28: at every rendered frame the IMG_ABUFFER binding of the descriptor
\* set layout is a storage buffer if and only if the applied algorithm is
\* OIT_LOOP64 and a storage texel buffer otherwise; the live A-buffer was
\* created with the usage of that type and has a texel view exactly when
\* the binding is a texel buffer; and the descriptor write of the binding
\* passes the kind of descriptor the type takes.
C28_ABufferBindingMatches ==
  FrameRecorded =>
    /\ m_descriptorInfo.live
    /\ m_descriptorInfo.abufferType = StatedABufferType
    /\ m_oitABuffer.live =>
         /\ m_oitABuffer.usage = m_descriptorInfo.abufferType
         /\ m_oitABuffer.view <=> m_descriptorInfo.abufferType = "STORAGE_TEXEL_BUFFER"
         /\ m_descriptorInfo.abufferWrite = StatedABufferWrite
    /\ m_descriptorInfo.abufferWrite \in {"NONE", StatedABufferWrite}

\* A frame of OIT_LOOP64 rendered after frames of a texel-buffer algorithm.
C28_Witness ==
  /\ FrameRecorded /\ m_lastState.algorithm = OIT_LOOP64
  /\ lastCall.applied.algorithm # OIT_LOOP64
  /\ m_oitABuffer.live /\ m_oitABuffer.usage = "STORAGE_BUFFER" /\ ~m_oitABuffer.view
  /\ m_descriptorInfo.abufferType = "STORAGE_BUFFER"
  /\ m_descriptorInfo.abufferWrite = "pBufferInfo"

\* The pipelines the commands of the recorded frame were bound to.
BoundPipelines == {cmdBuffer[i].target : i \in {j \in DOMAIN cmdBuffer : IsDraw(cmdBuffer[j])}}

\* The part of the pipeline handles' names that names the algorithm.
AlgorithmName(algorithm) ==
  CASE algorithm = OIT_SIMPLE -> "Simple"
    [] algorithm = OIT_LINKEDLIST -> "LinkedList"
    [] algorithm = OIT_LOOP -> "Loop"
    [] algorithm = OIT_LOOP64 -> "Loop64"
    [] algorithm = OIT_INTERLOCK -> "Interlock"
    [] algorithm = OIT_SPINLOCK -> "Spinlock"
    [] algorithm = OIT_WEIGHTED -> "Weighted"

\* The opaque pipeline with the color and composite pipelines of the
\* algorithm, and the depth pipeline for OIT_LOOP.
StatedPipelines(algorithm) ==
  {"m_pipelineOpaque",
   "m_pipeline" \o AlgorithmName(algorithm) \o "Color",
   "m_pipeline" \o AlgorithmName(algorithm) \o "Composite"}
    \cup (IF algorithm = OIT_LOOP THEN {"m_pipelineLoopDepth"} ELSE {})

\* C29: after every reconcile pass the live pipelines are exactly the
\* opaque pipeline and the pipelines of the applied algorithm (color and
\* composite, and depth too for OIT_LOOP), every other pipeline handle
\* being null; and every pipeline bound while a frame is recorded is live.
C29_LivePipelines ==
  /\ (CallReturned /\ ~closed) =>
       DOMAIN pipelines = StatedPipelines(m_lastState.algorithm)
  /\ FrameRecorded => BoundPipelines \subseteq DOMAIN pipelines

\* A frame of OIT_LOOP after another algorithm: the depth, color and
\* composite pipelines of OIT_LOOP and the opaque pipeline are live and
\* bound, and no other pipeline is live.
C29_Witness ==
  /\ FrameRecorded /\ m_lastState.algorithm = OIT_LOOP
  /\ lastCall.applied.algorithm # OIT_LOOP
  /\ BoundPipelines = DOMAIN pipelines
  /\ Cardinality(DOMAIN pipelines) = 4
  /\ "m_pipelineLoopDepth" \in BoundPipelines

\* The commands of the recorded frame from position i on, each as its
\* name and target.
CommandsFrom(i) ==
  [k \in 1 .. (Len(cmdBuffer) - i + 1) |->
     <<cmdBuffer[i + k - 1].cmd, cmdBuffer[i + k - 1].target>>]

\* What a frame of OIT_WEIGHTED records after the opaque draw.
StatedWeightedCommands ==
  << <<"vkCmdEndRenderPass", "m_renderPassColorDepthClear">>,
     <<"cmdImageMemoryBarrier", "m_colorImage">>,
     <<"vkCmdBeginRenderPass", "m_renderPassWeighted">>,
     <<"vkCmdDrawIndexed", "m_pipelineWeightedColor">>,
     <<"vkCmdNextSubpass", "m_renderPassWeighted">>,
     <<"vkCmdDraw", "m_pipelineWeightedComposite">>,
     <<"vkCmdEndRenderPass", "m_renderPassWeighted">> >>

\* C30: a frame of the weighted algorithm ends the main render pass after
\* the opaque draw, records a barrier on the color image, begins the
\* weighted render pass, records the color draw in its subpass 0, advances
\* to subpass 1 and records the composite draw there; the two pipelines are
\* built for these two subpasses of the weighted render pass, and the frame
\* records no clear of an auxiliary image or buffer.
C30_WeightedSubpasses ==
  (FrameRecorded /\ m_lastState.algorithm = OIT_WEIGHTED) =>
    /\ \A o \in OpaqueDraws : CommandsFrom(o + 1) = StatedWeightedCommands
    /\ OpaqueDraws # {}
    /\ \A i \in DOMAIN cmdBuffer : ~IsClear(cmdBuffer[i])
    /\ pipelines["m_pipelineWeightedColor"].renderPass = "m_renderPassWeighted"
    /\ pipelines["m_pipelineWeightedColor"].subpass = 0
    /\ pipelines["m_pipelineWeightedComposite"].renderPass = "m_renderPassWeighted"
    /\ pipelines["m_pipelineWeightedComposite"].subpass = 1
    /\ m_renderPassWeighted.live

\* A frame of OIT_WEIGHTED that draws transparent objects, after frames of
\* an algorithm that clears auxiliary storage.
C30_Witness ==
  /\ FrameRecorded /\ m_lastState.algorithm = OIT_WEIGHTED
  /\ lastCall.applied.algorithm \in ClearingAlgorithms
  /\ \E i \in TransparentDraws :
       cmdBuffer[i].target = "m_pipelineWeightedColor" /\ cmdBuffer[i].count > 0
  /\ \E i \in DOMAIN cmdBuffer : cmdBuffer[i].cmd = "vkCmdNextSubpass"


RenderOnlyFields == {"percentTransparent", "drawUI"}

\* The dirty predicates the current World would compute if the requested
\* state had the value v in field f.
FlagsWith(f, v) == DirtyFlags([World EXCEPT !.m_state[f] = v], FALSE)

\* C32: a change of only percentTransparent or of the drawUI flag makes no
\* dirty predicate true: in every state, requesting another percentage or
\* the other value of drawUI leaves every predicate as it is; a reconcile
\* call that found only such fields changed computed every predicate FALSE
\* and created and destroyed nothing; and the frame recorded after it splits
\* the objects at the number the new percentTransparent gives.
C32_RenderOnlyChange ==
  /\ LET flags == DirtyFlags(World, FALSE)
     IN  /\ \A p \in {0, 30, 100} : FlagsWith("percentTransparent", p) = flags
         /\ FlagsWith("drawUI", ~m_state.drawUI) = flags
  /\ (CallReturned /\ lastCall.changed # {} /\ lastCall.changed \subseteq RenderOnlyFields) =>
       /\ \A f \in DOMAIN lastCall.flags : ~lastCall.flags[f]
       /\ \A i \in DOMAIN trace : trace[i] \notin CreateEvents \cup DestroyEvents
       /\ EventsAt("vkDeviceWaitIdle") = {}
       /\ m_lastState.percentTransparent = m_state.percentTransparent
       /\ cmdBuffer # <<>> =>
            \A i \in OpaqueDraws :
              ObjectsPartitioned(cmdBuffer[i], cmdBuffer[i].first \div IndicesPerObject,
                                 scene.numObjects, m_state.percentTransparent)

\* A frame in which the user moved percentTransparent from 100 to 30 and
\* nothing else: nothing was rebuilt, and the opaque draw, which was empty
\* before, now covers the last 717 of the 1024 objects.
C32_Witness ==
  /\ lastCall.changed = {"percentTransparent"}
  /\ lastCall.applied.percentTransparent = 100 /\ m_state.percentTransparent = 30
  /\ cmdBuffer # <<>>
  /\ \E i \in OpaqueDraws : cmdBuffer[i].count = 717 * IndicesPerObject
  /\ \A i \in DOMAIN trace : trace[i] \notin CreateEvents \cup DestroyEvents


\* A size with a zero width or height.
IsZeroSize(size) == size[1] = 0 \/ size[2] = 0

\* What a handler's step did to the renderer: the events and the recorded
\* commands of the step.
StepRebuilt(category) ==
  \E i \in DOMAIN trace' : trace'[i] = "create:" \o category

FrameCommands == cmdBuffer \o backBufferCmds

DrawCommands == {"vkCmdDrawIndexed", "vkCmdDraw", "ImGui::RenderDrawDataVK"}

TransferCommands ==
  {"vkCmdClearColorImage", "vkCmdFillBuffer", "vkCmdResolveImage", "vkCmdBlitImage",
   "vkCmdCopyImage"}

\* The commands cmds, recorded from a point inside a render pass or not,
\* keep begins and ends alternating, end outside a render pass, and have
\* every draw and subpass change inside and every transfer outside one.
RECURSIVE PassesWellFormed(_, _)
PassesWellFormed(cmds, inside) ==
  IF cmds = <<>> THEN ~inside
  ELSE LET c == Head(cmds)
       IN  CASE c.cmd = "vkCmdBeginRenderPass" ->
                  ~inside /\ PassesWellFormed(Tail(cmds), TRUE)
             [] c.cmd = "vkCmdEndRenderPass" ->
                  inside /\ PassesWellFormed(Tail(cmds), FALSE)
             [] c.cmd \in DrawCommands \cup {"vkCmdNextSubpass"} ->
                  inside /\ PassesWellFormed(Tail(cmds), inside)
             [] c.cmd \in TransferCommands ->
                  ~inside /\ PassesWellFormed(Tail(cmds), inside)
             [] OTHER -> PassesWellFormed(Tail(cmds), inside)

\* How many commands of the frame are cmd.
CountCommands(cmd) ==
  Cardinality({i \in DOMAIN FrameCommands : FrameCommands[i].cmd = cmd})

\* C34: in every recorded frame the render-pass begins and ends alternate,
\* starting with a begin and finishing with an end before the command buffer
\* ends (so passes are balanced and never nested), every draw is recorded
\* inside a render pass, and every clear, fill, resolve, blit and copy
\* outside one.
C34_RenderPassesBalanced ==
  /\ PassesWellFormed(FrameCommands, FALSE)
  /\ CountCommands("vkCmdBeginRenderPass") = CountCommands("vkCmdEndRenderPass")
  /\ cmdBuffer # <<>> =>
       /\ backBufferCmds # <<>>
       /\ \E i \in DOMAIN FrameCommands : FrameCommands[i].cmd \in DrawCommands
       /\ \E i \in DOMAIN FrameCommands : FrameCommands[i].cmd = "vkCmdCopyImage"

\* A frame of the weighted algorithm with MSAA: three render passes (main,
\* weighted, GUI), clears of no image, and a resolve between the passes.
C34_Witness ==
  /\ m_state.algorithm = OIT_WEIGHTED /\ m_state.msaa # 1
  /\ CountCommands("vkCmdBeginRenderPass") = 3
  /\ CountCommands("vkCmdEndRenderPass") = 3
  /\ CountCommands("vkCmdResolveImage") = 1
  /\ CountCommands("ImGui::RenderDrawDataVK") = 1


\* C35: after every call of resizeCommands (the uniform buffers were
\* destroyed and recreated), and in every frame recorded afterwards, the
\* UBO_SCENE binding of the live descriptor sets refers to live uniform
\* buffers: the sets were rewritten after the buffers were recreated.
C35_UboSceneBindingLive ==
  /\ (CallReturned /\ EventsAt("create:uniformBuffers") # {} /\ m_descriptorInfo.live) =>
       /\ m_descriptorInfo.writes["UBO_SCENE"] = "valid"
       /\ \E i \in EventsAt("create:uniformBuffers"), j \in EventsAt("write:descriptorSets") :
            i < j
  /\ (FrameRecorded /\ m_descriptorInfo.live) =>
       m_descriptorInfo.writes["UBO_SCENE"] = "valid"

\* The fills of the A-buffer that the last frame recorded.
BufferFills == {i \in DOMAIN cmdBuffer : cmdBuffer[i].cmd = "vkCmdFillBuffer"}

\* C36: every buffer fill recorded by clearTransparentLoop lies within the
\* A-buffer allocated when it is recorded (offset + size <= buffer size), in
\* every frame, the first frame after a change of resolution, supersample
\* factor, sample shading or layer count included.
C36_FillsWithinABuffer ==
  (cmdBuffer # <<>> /\ m_state.algorithm = OIT_LOOP) =>
    /\ BufferFills # {}
    /\ \A i \in BufferFills :
         /\ m_oitABuffer.live
         /\ cmdBuffer[i].first + cmdBuffer[i].count <= m_oitABuffer.size
\* C37: in every frame the SceneData copied to the frame slot's uniform
\* buffer agrees with the resources the frame renders with: its viewport is
\* (width, height, width * height) of the current color image, and its
\* linkedListAllocatedPerElement is the value createFrameImages computed
\* when it created the current A-buffer; also in the first frame after a
\* reconfiguration.
C37_SceneDataMatchesFrame ==
  cmdBuffer # <<>> =>
    /\ "m_colorImage" \in DOMAIN images
    /\ uniformData.viewport =
         <<images["m_colorImage"].width, images["m_colorImage"].height,
           images["m_colorImage"].width * images["m_colorImage"].height>>
    /\ uniformData.linkedListAllocatedPerElement = m_sceneUbo.linkedListAllocatedPerElement
\* C38: for the linked-list algorithm the 32-bit value stored in
\* m_sceneUbo.linkedListAllocatedPerElement is the product of the allocation
\* factor, the buffer width and height (and msaa with sample shading)
\* without wrapping modulo 2^32, that is the number of 16-byte elements of
\* the A-buffer: widened to 64 bits and multiplied by 16 it is the buffer's
\* size in bytes; for every allocation factor, resolution and antialiasing
\* mode the settings window admits.
C38_ElementCountDoesNotWrap ==
  m_oitABuffer.live =>
    MulLimbs(m_sceneUbo.linkedListAllocatedPerElement \o <<0, 0>>, 16, 0) = m_oitABuffer.size
\* The shader modules compile has created, and those an entry of the cache
\* holds.
CreatedModules == 1 .. shaderCompiler.created
CachedModules == {e.module : e \in shaderCompiler.m_cache} \ {VK_NULL_HANDLE}

\* C40: over any sequence of compile calls, file modifications and clear(),
\* every shader module compile has created is destroyed exactly once: at
\* any time a created module is either still held by the cache or has been
\* destroyed (a module that a recompile replaced is not leaked), none is
\* destroyed twice, after clear() all are destroyed, and a compile that
\* finds the cache empty compiles anew.
C40_ModulesDestroyedOnce ==
  /\ shaderCompiler.destroyedTwice = {}
  /\ \A module \in CreatedModules :
       (module \in shaderCompiler.destroyed) # (module \in CachedModules)
  /\ shaderCompiler.m_cache = {} => shaderCompiler.destroyed = CreatedModules
  /\ (shaderCompiler.returned.called /\ shaderCompiler.returned.found
        /\ shaderCompiler.returned.before = {}) => shaderCompiler.returned.compiled
\* Walking the recorded commands with the layouts tracked so far: at the
\* begin of a render pass every attachment that is a frame image is tracked
\* in the attachment's initialLayout, and at a clear the image is tracked
\* in GENERAL, which is also the layout passed to the clear.
RECURSIVE LayoutsAsAssumed(_, _)
LayoutsAsAssumed(tracked, cmds) ==
  IF cmds = <<>> THEN TRUE
  ELSE /\ Head(cmds).cmd = "vkCmdBeginRenderPass" =>
            \A image \in DOMAIN AttachmentInitialLayouts(Head(cmds).target) :
              /\ image \in DOMAIN tracked
              /\ tracked[image] = AttachmentInitialLayouts(Head(cmds).target)[image]
       /\ Head(cmds).cmd = "vkCmdClearColorImage" =>
            /\ Head(cmds).target \in DOMAIN tracked
            /\ tracked[Head(cmds).target] = "GENERAL"
            /\ Head(cmds).layout = "GENERAL"
       /\ LayoutsAsAssumed(Tracked(tracked, <<Head(cmds)>>), Tail(cmds))

\* C39: at every recorded command of a frame that assumes an image layout
\* the layout tracked for the image is the assumed one: the color image is
\* COLOR_ATTACHMENT_OPTIMAL and the depth image
\* DEPTH_STENCIL_ATTACHMENT_OPTIMAL at every render-pass begin, the weighted
\* targets are COLOR_ATTACHMENT_OPTIMAL when the weighted pass begins, every
\* auxiliary and counter image is GENERAL at every clear, and at the end of
\* copyOffscreenToBackBuffer the color image is back in the layout it had
\* before.
C39_TrackedLayoutsAsAssumed ==
  cmdBuffer # <<>> =>
    /\ LayoutsAsAssumed(lastCall.layouts, FrameCommands)
    /\ Tracked(lastCall.layouts, FrameCommands) = layouts
    /\ "m_colorImage" \in DOMAIN layouts
    /\ layouts["m_colorImage"] = Tracked(lastCall.layouts, cmdBuffer)["m_colorImage"]

\* A frame of the weighted algorithm with antialiasing: both render passes
\* begin, and the color image is made a transfer source and restored.
C39_Witness ==
  /\ cmdBuffer # <<>> /\ m_state.algorithm = OIT_WEIGHTED
  /\ \E i \in DOMAIN cmdBuffer :
       /\ cmdBuffer[i].cmd = "vkCmdBeginRenderPass"
       /\ cmdBuffer[i].target = "m_renderPassWeighted"
  /\ \E i \in DOMAIN backBufferCmds :
       /\ backBufferCmds[i].cmd = "cmdImageMemoryBarrier"
       /\ backBufferCmds[i].target = "m_colorImage"
       /\ backBufferCmds[i].layout = "TRANSFER_SRC_OPTIMAL"
  /\ layouts["m_colorImage"] = "COLOR_ATTACHMENT_OPTIMAL"
  /\ layouts["m_oitWeightedColorImage"] = "COLOR_ATTACHMENT_OPTIMAL"
=============================================================================
